---- MODULE EndpointProofs ----
(*****************************************************************************)
(* Proofs about the routes of Endpoint.  For every number of connections,    *)
(* connection IDs, handles and calls, datagrams are routed to the connection *)
(* registered last and resets carry the token registered last.               *)
(*****************************************************************************)
EXTENDS Endpoint, FiniteSetTheorems, SequenceTheorems, TLAPS

Registration == [op : {"register"}, cid : Cids, handle : Handles, token : ResetTokens \cup {NoToken}]
Retirement == [op : {"unregister"}, cid : Cids]

\* The calls that wrote the route of a connection ID are those on it, the calls that wrote its
\* token are the registrations that brought one; both tables show the last of them.
Latest(is) == is # {} => LastOf(is) \in is

Route(cid) == CallsOn(cid) # {} /\ calls[LastOf(CallsOn(cid))].op = "register"

RouteKept(cid) ==
    /\ Latest(CallsOn(cid))
    /\ cid \in DOMAIN entries <=> Route(cid)
    /\ Route(cid) => entries[cid] = calls[LastOf(CallsOn(cid))].handle

TokenKept(cid) ==
    /\ Latest(TokensOf(cid))
    /\ cid \in DOMAIN reset_tokens <=> TokensOf(cid) # {}
    /\ TokensOf(cid) # {} => reset_tokens[cid] = calls[LastOf(TokensOf(cid))].token

EndpointInvariant ==
    /\ config \in Configs
    /\ calls \in Seq(Registration \cup Retirement)
    /\ IsFiniteSet(DOMAIN entries)
    /\ Cardinality(DOMAIN entries) <= config.max_connections
    /\ \A cid \in Cids : RouteKept(cid) /\ TokenKept(cid)

-----------------------------------------------------------------------------
\* A byte is a number below 256.
LEMMA Bytes == Byte \subseteq Nat /\ \A x \in Nat : x \in Byte <=> x < 256
BY DEF Byte

\* The largest of a set of numbers is what LastOf chooses.
LEMMA LastIsLargest ==
    ASSUME NEW is \in SUBSET Nat, NEW n \in is, \A j \in is : j <= n
    PROVE  LastOf(is) = n
<1>1. \E i \in is : \A j \in is : j <= i
  OBVIOUS
<1>2. LastOf(is) \in is /\ \A j \in is : j <= LastOf(is)
  BY <1>1, Zenon DEF LastOf
<1>3. LastOf(is) <= n /\ n <= LastOf(is)
  BY <1>2, Zenon
<1>4. LastOf(is) \in Nat /\ n \in Nat
  BY <1>2, Zenon
<1> QED
  BY <1>3, <1>4

\* A call on another connection ID leaves the history of this one alone.
LEMMA OtherCallsKept ==
    ASSUME calls \in Seq(Registration \cup Retirement), NEW call \in Registration \cup Retirement,
           calls' = Append(calls, call), NEW cid \in Cids, call.cid # cid
    PROVE  /\ CallsOn(cid)' = CallsOn(cid)
           /\ TokensOf(cid)' = TokensOf(cid)
           /\ \A i \in CallsOn(cid) : calls'[i] = calls[i]
<1>1. /\ DOMAIN calls = 1..Len(calls) /\ DOMAIN calls' = 1..Len(calls) + 1
      /\ \A i \in 1..Len(calls) : calls'[i] = calls[i]
      /\ calls'[Len(calls) + 1] = call
      /\ Len(calls) \in Nat
  OBVIOUS
<1>2. CallsOn(cid)' = CallsOn(cid)
  BY <1>1 DEF CallsOn
<1>3. \A i \in CallsOn(cid) : calls'[i] = calls[i]
  BY <1>1 DEF CallsOn
<1> QED
  BY <1>2, <1>3, Zenon DEF TokensOf

\* A call is the last on its own connection ID.
LEMMA CallIsLast ==
    ASSUME calls \in Seq(Registration \cup Retirement), NEW call \in Registration \cup Retirement,
           calls' = Append(calls, call)
    PROVE  /\ Len(calls) + 1 \in CallsOn(call.cid)'
           /\ LastOf(CallsOn(call.cid)') = Len(calls) + 1
           /\ calls'[Len(calls) + 1] = call
<1>1. /\ DOMAIN calls' = 1..Len(calls) + 1 /\ Len(calls) \in Nat
      /\ calls'[Len(calls) + 1] = call
  OBVIOUS
<1>2. /\ Len(calls) + 1 \in CallsOn(call.cid)'
      /\ CallsOn(call.cid)' \subseteq 1..Len(calls) + 1
  BY <1>1 DEF CallsOn
<1>3. LastOf(CallsOn(call.cid)') = Len(calls) + 1
  BY <1>1, <1>2, LastIsLargest
<1> QED
  BY <1>1, <1>2, <1>3

\* The same of the registrations that brought a token.
LEMMA TokenIsLast ==
    ASSUME calls \in Seq(Registration \cup Retirement), NEW call \in Registration,
           calls' = Append(calls, call), call.token # NoToken
    PROVE  /\ Len(calls) + 1 \in TokensOf(call.cid)'
           /\ LastOf(TokensOf(call.cid)') = Len(calls) + 1
<1>1. /\ DOMAIN calls' = 1..Len(calls) + 1 /\ Len(calls) \in Nat
      /\ calls'[Len(calls) + 1] = call /\ call.op = "register"
  BY DEF Registration
<1>2. /\ Len(calls) + 1 \in TokensOf(call.cid)'
      /\ TokensOf(call.cid)' \subseteq 1..Len(calls) + 1
  BY <1>1 DEF TokensOf, CallsOn
<1>3. LastOf(TokensOf(call.cid)') = Len(calls) + 1
  BY <1>1, <1>2, LastIsLargest
<1> QED
  BY <1>2, <1>3

\* A call that brings no token leaves the tokens of its own connection ID alone.
LEMMA TokensKept ==
    ASSUME calls \in Seq(Registration \cup Retirement), NEW call \in Registration \cup Retirement,
           calls' = Append(calls, call), call.op = "register" => call.token = NoToken,
           NEW cid \in Cids
    PROVE  /\ TokensOf(cid)' = TokensOf(cid)
           /\ \A i \in TokensOf(cid) : calls'[i] = calls[i]
<1>1. /\ DOMAIN calls = 1..Len(calls) /\ DOMAIN calls' = 1..Len(calls) + 1
      /\ \A i \in 1..Len(calls) : calls'[i] = calls[i]
      /\ calls'[Len(calls) + 1] = call
      /\ Len(calls) \in Nat
  OBVIOUS
<1>2. \A i \in TokensOf(cid) : i \in 1..Len(calls)
  BY <1>1 DEF TokensOf, CallsOn
<1>3. TokensOf(cid)' = TokensOf(cid)
  <2>1. ASSUME NEW i \in TokensOf(cid)' PROVE i \in TokensOf(cid)
    <3>1. i \in 1..Len(calls) + 1 /\ calls'[i].cid = cid /\ calls'[i].op = "register" /\ calls'[i].token # NoToken
      BY <1>1, <2>1 DEF TokensOf, CallsOn
    <3>2. i # Len(calls) + 1
      BY <3>1, <1>1
    <3> QED
      BY <3>1, <3>2, <1>1 DEF TokensOf, CallsOn
  <2>2. ASSUME NEW i \in TokensOf(cid) PROVE i \in TokensOf(cid)'
    BY <1>1, <1>2, <2>2 DEF TokensOf, CallsOn
  <2> QED
    BY <2>1, <2>2, Zenon
<1> QED
  BY <1>1, <1>2, <1>3

\* What a call on another connection ID leaves in place.
LEMMA OthersKept ==
    ASSUME EndpointInvariant, NEW call \in Registration \cup Retirement,
           calls' = Append(calls, call), NEW cid \in Cids, call.cid # cid,
           cid \in DOMAIN entries' <=> cid \in DOMAIN entries,
           cid \in DOMAIN entries => entries'[cid] = entries[cid],
           cid \in DOMAIN reset_tokens' <=> cid \in DOMAIN reset_tokens,
           cid \in DOMAIN reset_tokens => reset_tokens'[cid] = reset_tokens[cid]
    PROVE  RouteKept(cid)' /\ TokenKept(cid)'
<1>1. /\ RouteKept(cid) /\ TokenKept(cid)
      /\ calls \in Seq(Registration \cup Retirement)
  BY DEF EndpointInvariant
<1>2. /\ CallsOn(cid)' = CallsOn(cid) /\ TokensOf(cid)' = TokensOf(cid)
      /\ \A i \in CallsOn(cid) : calls'[i] = calls[i]
  BY <1>1, OtherCallsKept, Zenon
<1>3. \A i \in TokensOf(cid) : calls'[i] = calls[i]
  BY <1>2, Zenon DEF TokensOf
<1>4. LastOf(CallsOn(cid))' = LastOf(CallsOn(cid)) /\ LastOf(TokensOf(cid))' = LastOf(TokensOf(cid))
  BY <1>2 DEF LastOf
<1>5. RouteKept(cid)'
  BY <1>1, <1>2, <1>4, Zenon DEF RouteKept, Route, Latest
<1>6. TokenKept(cid)'
  BY <1>1, <1>2, <1>3, <1>4, ZenonT(30) DEF TokenKept, Latest
<1> QED
  BY <1>5, <1>6

-----------------------------------------------------------------------------
\* A constructed endpoint has neither routes nor tokens, and nothing was asked of it.
LEMMA InvariantInitially == Init => EndpointInvariant
<1> SUFFICES ASSUME Init PROVE EndpointInvariant
  OBVIOUS
<1>1. /\ config \in Configs /\ calls = <<>> /\ DOMAIN entries = {} /\ DOMAIN reset_tokens = {}
  BY DEF Init, Empty
<1>2. IsFiniteSet(DOMAIN entries) /\ Cardinality(DOMAIN entries) <= config.max_connections
  BY <1>1, FS_EmptySet, EndpointAssumption
<1>3. \A cid \in Cids : CallsOn(cid) = {} /\ TokensOf(cid) = {}
  BY <1>1 DEF CallsOn, TokensOf
<1>4. \A cid \in Cids : RouteKept(cid) /\ TokenKept(cid)
  BY <1>1, <1>3 DEF RouteKept, TokenKept, Route, Latest
<1>5. calls \in Seq(Registration \cup Retirement)
  BY <1>1
<1> QED
  BY <1>1, <1>2, <1>4, <1>5 DEF EndpointInvariant

\* A registration: the route and, if it brings one, the token of its connection ID are replaced.
LEMMA RegisterKeeps ==
    ASSUME EndpointInvariant, NEW cid \in Cids, NEW handle \in Handles,
           NEW token \in ResetTokens \cup {NoToken}, register_connection(cid, handle, token)
    PROVE  EndpointInvariant'
<1> DEFINE call == [op |-> "register", cid |-> cid, handle |-> handle, token |-> token]
<1>1. /\ config' = config /\ config \in Configs
      /\ Cardinality(DOMAIN entries) < config.max_connections
      /\ entries' = Put(entries, cid, handle)
      /\ reset_tokens' = IF token = NoToken THEN reset_tokens ELSE Put(reset_tokens, cid, token)
      /\ calls' = Append(calls, call)
  BY DEF register_connection, add, EndpointInvariant
<1>2. call \in Registration /\ call.cid = cid /\ call.token = token /\ call.op = "register" /\ call.handle = handle
  BY DEF Registration
<1> HIDE DEF call
<1>3. calls \in Seq(Registration \cup Retirement) /\ calls' \in Seq(Registration \cup Retirement)
  BY <1>1, <1>2 DEF EndpointInvariant
<1>4. /\ DOMAIN entries' = DOMAIN entries \cup {cid} /\ entries'[cid] = handle
      /\ \A c \in DOMAIN entries : c # cid => entries'[c] = entries[c]
  BY <1>1 DEF Put
<1>5. /\ IsFiniteSet(DOMAIN entries')
      /\ Cardinality(DOMAIN entries') <= config'.max_connections
  <2>1. IsFiniteSet(DOMAIN entries)
    BY DEF EndpointInvariant
  <2>2. /\ IsFiniteSet(DOMAIN entries \cup {cid})
        /\ Cardinality(DOMAIN entries \cup {cid}) \in {Cardinality(DOMAIN entries), Cardinality(DOMAIN entries) + 1}
    BY <2>1, FS_AddElement
  <2>3. Cardinality(DOMAIN entries) \in Nat /\ config.max_connections \in Nat
    BY <1>1, <2>1, FS_CardinalityType, EndpointAssumption, SMTT(30)
  <2> QED
    BY <1>1, <1>4, <2>2, <2>3
<1>6. ASSUME NEW c \in Cids, c # cid PROVE RouteKept(c)' /\ TokenKept(c)'
  <2>1. /\ c \in DOMAIN reset_tokens' <=> c \in DOMAIN reset_tokens
        /\ c \in DOMAIN reset_tokens => reset_tokens'[c] = reset_tokens[c]
    BY <1>1, <1>6 DEF Put
  <2> QED
    BY <1>1, <1>2, <1>4, <1>6, <2>1, OthersKept, SMTT(30)
<1>7. RouteKept(cid)'
  <2>1. /\ Len(calls) + 1 \in CallsOn(cid)' /\ LastOf(CallsOn(cid)') = Len(calls) + 1
        /\ calls'[Len(calls) + 1] = call
    BY <1>1, <1>2, <1>3, CallIsLast
  <2>2. LastOf(CallsOn(cid))' = LastOf(CallsOn(cid)')
    BY DEF LastOf
  <2> QED
    BY <1>2, <1>4, <2>1, <2>2 DEF RouteKept, Route, Latest
<1>8. TokenKept(cid)'
  <2>1. CASE token = NoToken
    <3>1. /\ TokensOf(cid)' = TokensOf(cid) /\ \A i \in TokensOf(cid) : calls'[i] = calls[i]
      BY <1>1, <1>2, <1>3, <2>1, TokensKept, ZenonT(30)
    <3>2. TokenKept(cid) /\ reset_tokens' = reset_tokens
      BY <1>1, <2>1 DEF EndpointInvariant
    <3>3. LastOf(TokensOf(cid))' = LastOf(TokensOf(cid))
      BY <3>1 DEF LastOf
    <3> QED
      BY <3>1, <3>2, <3>3 DEF TokenKept, Latest
  <2>2. CASE token # NoToken
    <3>1. /\ Len(calls) + 1 \in TokensOf(cid)' /\ LastOf(TokensOf(cid)') = Len(calls) + 1
      BY <1>1, <1>2, <1>3, <2>2, TokenIsLast, SMTT(30)
    <3>2. calls'[Len(calls) + 1] = call
      BY <1>1, <1>2, <1>3, CallIsLast
    <3>3. cid \in DOMAIN reset_tokens' /\ reset_tokens'[cid] = token
      BY <1>1, <2>2 DEF Put
    <3>4. LastOf(TokensOf(cid))' = LastOf(TokensOf(cid)')
      BY DEF LastOf
    <3> QED
      BY <1>2, <3>1, <3>2, <3>3, <3>4, SMTT(30) DEF TokenKept, Latest
  <2> QED
    BY <2>1, <2>2
<1>9. \A c \in Cids : RouteKept(c)' /\ TokenKept(c)'
  BY <1>6, <1>7, <1>8
<1> QED
  BY <1>1, <1>3, <1>5, <1>9 DEF EndpointInvariant

\* A retirement: the route goes and the token stays.
LEMMA UnregisterKeeps ==
    ASSUME EndpointInvariant, NEW cid \in Cids, unregister_connection(cid)
    PROVE  EndpointInvariant'
<1> DEFINE call == [op |-> "unregister", cid |-> cid]
<1>1. /\ config' = config /\ config \in Configs
      /\ entries' = [x \in DOMAIN entries \ {cid} |-> entries[x]]
      /\ reset_tokens' = reset_tokens
      /\ calls' = Append(calls, call)
  BY DEF unregister_connection, retire, Restrict, EndpointInvariant
<1>2. call \in Retirement /\ call.cid = cid /\ call.op = "unregister"
  BY DEF Retirement
<1> HIDE DEF call
<1>3. calls \in Seq(Registration \cup Retirement) /\ calls' \in Seq(Registration \cup Retirement)
  BY <1>1, <1>2 DEF EndpointInvariant
<1>4. /\ DOMAIN entries' = DOMAIN entries \ {cid}
      /\ \A c \in DOMAIN entries' : entries'[c] = entries[c]
  BY <1>1
<1>5. /\ IsFiniteSet(DOMAIN entries')
      /\ Cardinality(DOMAIN entries') <= config'.max_connections
  <2>1. IsFiniteSet(DOMAIN entries) /\ Cardinality(DOMAIN entries) <= config.max_connections
    BY DEF EndpointInvariant
  <2>2. /\ IsFiniteSet(DOMAIN entries') /\ Cardinality(DOMAIN entries') <= Cardinality(DOMAIN entries)
    BY <1>4, <2>1, FS_Subset
  <2>3. /\ Cardinality(DOMAIN entries) \in Nat /\ Cardinality(DOMAIN entries') \in Nat
        /\ config.max_connections \in Nat
    BY <1>1, <2>1, <2>2, FS_CardinalityType, EndpointAssumption, SMTT(30)
  <2> QED
    BY <1>1, <2>1, <2>2, <2>3
<1>6. ASSUME NEW c \in Cids, c # cid PROVE RouteKept(c)' /\ TokenKept(c)'
  BY <1>1, <1>2, <1>4, <1>6, OthersKept, ZenonT(30)
<1>7. RouteKept(cid)'
  <2>1. /\ Len(calls) + 1 \in CallsOn(cid)' /\ LastOf(CallsOn(cid)') = Len(calls) + 1
        /\ calls'[Len(calls) + 1] = call
    BY <1>1, <1>2, <1>3, CallIsLast
  <2>2. LastOf(CallsOn(cid))' = LastOf(CallsOn(cid)')
    BY DEF LastOf
  <2> QED
    BY <1>2, <1>4, <2>1, <2>2 DEF RouteKept, Route, Latest
<1>8. TokenKept(cid)'
  <2>1. /\ TokensOf(cid)' = TokensOf(cid) /\ \A i \in TokensOf(cid) : calls'[i] = calls[i]
    BY <1>1, <1>2, <1>3, TokensKept, Zenon
  <2>2. TokenKept(cid)
    BY DEF EndpointInvariant
  <2>3. LastOf(TokensOf(cid))' = LastOf(TokensOf(cid))
    BY <2>1 DEF LastOf
  <2> QED
    BY <1>1, <2>1, <2>2, <2>3, Zenon DEF TokenKept, Latest
<1>9. \A c \in Cids : RouteKept(c)' /\ TokenKept(c)'
  BY <1>6, <1>7, <1>8
<1> QED
  BY <1>1, <1>3, <1>5, <1>9, SMTT(30) DEF EndpointInvariant

\* The other steps leave both tables and the history alone.
LEMMA OtherStepsKeep ==
    ASSUME EndpointInvariant, UNCHANGED <<config, entries, reset_tokens, calls>>
    PROVE  EndpointInvariant'
<1>1. \A cid \in Cids : RouteKept(cid)' <=> RouteKept(cid)
  BY DEF RouteKept, Route, Latest, CallsOn, LastOf
<1>2. \A cid \in Cids : TokenKept(cid)' <=> TokenKept(cid)
  BY DEF TokenKept, Latest, TokensOf, CallsOn, LastOf
<1> QED
  BY <1>1, <1>2 DEF EndpointInvariant

-----------------------------------------------------------------------------
\* A function on 1..m is a sequence of m elements.
LEMMA FunctionIsSequence ==
    ASSUME NEW S, NEW m \in Nat, NEW f \in [1..m -> S]
    PROVE  f \in Seq(S) /\ Len(f) = m
<1>1. f \in Seq(S)
  BY SeqDef
<1>2. Len(f) \in Nat /\ 1..Len(f) = 1..m
  BY <1>1, LenProperties
<1> QED
  BY <1>1, <1>2

\* The bytes of a sequence behind the first m are found by Sub.
LEMMA SuffixFound ==
    ASSUME NEW B, NEW head \in Seq(B), NEW token \in Seq(B), Len(head) >= 1
    PROVE  /\ Len(head \o token) = Len(head) + Len(token)
           /\ (head \o token)[1] = head[1]
           /\ Sub(head \o token, Len(head), Len(token)) = token
<1> DEFINE m == Len(head)
           k == Len(token)
<1>0. m \in Nat /\ k \in Nat /\ m >= 1
  BY LenProperties
<1>1. token \in Seq(B) /\ Len(token) = k /\ head \in Seq(B) /\ Len(head) = m
  OBVIOUS
<1> HIDE DEF m, k
<1> DEFINE whole == head \o token
<1>2. /\ whole \in Seq(B) /\ Len(whole) = m + k
      /\ \A i \in 1..m + k : whole[i] = IF i <= m THEN head[i] ELSE token[i - m]
  <2>1. /\ whole \in Seq(B) /\ Len(whole) = Len(head) + Len(token)
        /\ \A i \in 1..Len(head) + Len(token) :
              whole[i] = IF i <= Len(head) THEN head[i] ELSE token[i - Len(head)]
    BY <1>1, ConcatProperties, Zenon
  <2> QED
    BY <1>1, <2>1, Zenon
<1> HIDE DEF whole
<1>3. whole[1] = head[1]
  <2>1. 1 \in 1..m + k /\ 1 <= m
    BY <1>0
  <2> QED
    BY <1>2, <2>1, Zenon
<1>4. ASSUME NEW i \in 1..k PROVE whole[m + i] = token[i]
  <2>1. m + i \in 1..m + k /\ ~(m + i <= m) /\ (m + i) - m = i
    BY <1>0
  <2>2. whole[m + i] = token[(m + i) - m]
    BY <1>2, <2>1, Zenon
  <2> QED
    BY <2>1, <2>2, Zenon
<1>5. \A i \in m + 1..m + k : whole[i] \in B
  <2>1. \A i \in 1..Len(whole) : whole[i] \in B
    BY <1>2, ElementOfSeq, Zenon
  <2> TAKE i \in m + 1..m + k
  <2>2. i \in 1..m + k
    BY <1>0
  <2> QED
    BY <1>2, <2>1, <2>2, Zenon
<1> DEFINE part == SubSeq(whole, m + 1, m + k)
<1>6. /\ part \in Seq(B)
      /\ Len(part) = IF m + 1 <= m + k THEN (m + k) - (m + 1) + 1 ELSE 0
      /\ \A i \in 1..(m + k) - (m + 1) + 1 : part[i] = whole[(m + 1) + i - 1]
  <2> DEFINE lo == m + 1
             hi == m + k
  <2>1. lo \in Int /\ hi \in Int /\ \A i \in lo..hi : whole[i] \in B
    BY <1>0, <1>5
  <2> HIDE DEF lo, hi
  <2>2. /\ SubSeq(whole, lo, hi) \in Seq(B)
        /\ Len(SubSeq(whole, lo, hi)) = IF lo <= hi THEN hi - lo + 1 ELSE 0
        /\ \A i \in 1..hi - lo + 1 : SubSeq(whole, lo, hi)[i] = whole[lo + i - 1]
    BY <2>1, SubSeqProperties
  <2> QED
    BY <2>2, Zenon DEF lo, hi
<1> HIDE DEF part
<1>7. Len(part) = k
  BY <1>0, <1>6
<1>8. ASSUME NEW i \in 1..k PROVE part[i] = token[i]
  <2>1. i \in 1..(m + k) - (m + 1) + 1 /\ (m + 1) + i - 1 = m + i
    BY <1>0
  <2>2. part[i] = whole[m + i]
    BY <1>6, <2>1, Zenon
  <2> QED
    BY <1>4, <2>2, Zenon
<1>9. part = token
  BY <1>1, <1>6, <1>7, <1>8, SeqEqual, ZenonT(30)
<1> QED
  BY <1>1, <1>2, <1>3, <1>9, ZenonT(30) DEF whole, part, Sub, m, k

\* No reset is made without the random bytes, all of them.
LEMMA NoResetWithoutRandom ==
    ASSUME NEW token, NEW trigger \in Nat, NEW preferred \in Nat, NEW fill \in Byte
    PROVE  /\ ~build_stateless_reset_packet(token, trigger, preferred, Broken).ok
           /\ ~build_stateless_reset_packet(token, trigger, preferred, Short(fill)).ok
<1> DEFINE size == IF preferred < trigger - 1 THEN preferred ELSE trigger - 1
           refused == trigger <= 21 \/ preferred < 21 \/ size < 21
<1>1. ~build_stateless_reset_packet(token, trigger, preferred, Broken).ok
  BY DEF build_stateless_reset_packet, random_bytes, Broken, Failed
<1>2. ~build_stateless_reset_packet(token, trigger, preferred, Short(fill)).ok
  <2>1. CASE refused
    BY <2>1 DEF build_stateless_reset_packet, Failed, minimum_stateless_reset_datagram_size
  <2>2. CASE ~refused
    <3>1. size - 16 - 1 \in Nat /\ size - 16 - 1 # size - 16
      BY <2>2
    <3>2. [i \in 1..size - 16 - 1 |-> fill] \in [1..size - 16 - 1 -> Byte]
      OBVIOUS
    <3>3. Len([i \in 1..size - 16 - 1 |-> fill]) = size - 16 - 1
      BY <3>1, <3>2, FunctionIsSequence
    <3>4. random_bytes(Short(fill), size - 16) = Filled(fill, size - 16 - 1)
      BY DEF random_bytes, Short
    <3>5. random_bytes(Short(fill), size - 16).bytes = [i \in 1..size - 16 - 1 |-> fill]
      BY <3>4, SMTT(30) DEF Filled
    <3> QED
      BY <3>1, <3>3, <3>5 DEF build_stateless_reset_packet, Failed, minimum_stateless_reset_datagram_size,
                              stateless_reset_token_size
  <2> QED
    BY <2>1, <2>2
<1> QED
  BY <1>1, <1>2

\* A reset is made whenever the datagram it answers and the preferred size leave room; it is
\* smaller than that datagram, begins like a short header and ends with the token.
LEMMA ResetPacket ==
    ASSUME NEW token \in [1..16 -> Byte], NEW trigger \in Nat, NEW preferred \in Nat, NEW fill \in Byte
    PROVE  LET reset == build_stateless_reset_packet(token, trigger, preferred, Full(fill))
           IN  /\ reset.ok <=> trigger > 21 /\ preferred >= 21
               /\ reset.ok => /\ Len(reset.payload) < trigger
                              /\ ~LongForm(reset.payload[1]) /\ FixedBit(reset.payload[1])
                              /\ matches_peer_stateless_reset(reset.payload, token)
<1> DEFINE size == IF preferred < trigger - 1 THEN preferred ELSE trigger - 1
           m == size - 16
           bytes == [i \in 1..m |-> fill]
           first == [bytes EXCEPT ![1] = 64 + (@ % 64)]
           whole == first \o token
           reset == build_stateless_reset_packet(token, trigger, preferred, Full(fill))
<1>1. CASE ~(trigger > 21 /\ preferred >= 21)
  <2>1. ~reset.ok
    BY <1>1 DEF build_stateless_reset_packet, minimum_stateless_reset_datagram_size, Failed
  <2> HIDE DEF reset
  <2>2. (reset.ok <=> trigger > 21 /\ preferred >= 21) /\ ~reset.ok
    BY <1>1, <2>1
  <2> QED
    BY <2>2, SMTT(30) DEF reset
<1>2. CASE trigger > 21 /\ preferred >= 21
  <2>1. m \in Nat /\ m >= 5 /\ m + 16 = size /\ size < trigger /\ size >= 21
    BY <1>2
  <2> HIDE DEF size, m, first, whole, reset
  <2>2. bytes \in [1..m -> Byte] /\ bytes[1] = fill
    BY <2>1
  <2>3. Len(bytes) = m
    BY <2>1, <2>2, FunctionIsSequence
  <2>4. reset.ok /\ reset.payload = whole
    <3> DEFINE random == random_bytes(Full(fill), m)
    <3>0. random = Filled(fill, m - 0)
      BY DEF random_bytes, Full
    <3>1. random.ok = TRUE /\ random.bytes = bytes
      <4>1. m - 0 = m
        BY <2>1
      <4> QED
        BY <3>0, <4>1 DEF Filled
    <3> HIDE DEF size, m, bytes, first, whole, reset, random
    <3>2. ~(\/ trigger <= 21 \/ preferred < 21 \/ size < 21 \/ ~random.ok)
      <4>1. size \in Nat /\ ~(trigger <= 21) /\ ~(preferred < 21) /\ ~(size < 21)
        BY <1>2, <2>1
      <4> QED
        BY <3>1, <4>1, Zenon
    <3>3. ~(Len(random.bytes) # m)
      BY <2>3, <3>1, Zenon
    <3>4. reset = [ok |-> TRUE, payload |-> [random.bytes EXCEPT ![1] = 64 + (@ % 64)] \o token]
      BY <3>2, <3>3, Zenon DEF build_stateless_reset_packet, minimum_stateless_reset_datagram_size,
                               stateless_reset_token_size, reset, random, m, size
    <3>5. reset = [ok |-> TRUE, payload |-> whole]
      BY <3>1, <3>4, Zenon DEF whole, first
    <3> QED
      BY <3>5
  <2>5. first \in [1..m -> Byte] /\ first[1] = 64 + (fill % 64)
    <3>1. 64 + (fill % 64) \in Byte /\ 1 \in 1..m
      <4>1. fill \in Nat
        BY Bytes
      <4>2. 64 + (fill % 64) \in Nat /\ 64 + (fill % 64) < 256
        BY <4>1
      <4> QED
        BY <2>1, <4>2, Bytes
    <3> HIDE DEF bytes
    <3> QED
      BY <2>2, <3>1 DEF first
  <2>6. ~LongForm(64 + (fill % 64)) /\ FixedBit(64 + (fill % 64))
    <3>1. fill \in Nat
      BY Bytes
    <3> QED
      BY <3>1 DEF LongForm, FixedBit
  <2> HIDE DEF bytes
  <2>7. Len(whole) = m + 16 /\ whole[1] = first[1] /\ Len(token) = 16 /\ Sub(whole, m, 16) = token
    <3> DEFINE k == 16
               B == Byte
    <3>1. k \in Nat
      OBVIOUS
    <3>2. m \in Nat /\ m >= 1
      BY <2>1
    <3>3. token \in [1..k -> B] /\ first \in [1..m -> B]
      BY <2>5, Zenon
    <3> HIDE DEF k, B
    <3>4. token \in Seq(B) /\ Len(token) = k
      BY <3>1, <3>3, FunctionIsSequence
    <3>5. first \in Seq(B) /\ Len(first) = m
      BY <3>2, <3>3, FunctionIsSequence, SMTT(30)
    <3>6. Len(whole) = m + k /\ whole[1] = first[1] /\ Sub(whole, m, k) = token
      <4>1. Len(first) >= 1
        BY <3>2, <3>5
      <4>2. /\ Len(first \o token) = Len(first) + Len(token)
            /\ (first \o token)[1] = first[1]
            /\ Sub(first \o token, Len(first), Len(token)) = token
        BY <3>4, <3>5, <4>1, SuffixFound, ZenonT(30)
      <4> QED
        BY <3>4, <3>5, <4>2, ZenonT(30) DEF whole
    <3> QED
      BY <3>4, <3>6, Zenon DEF k
  <2>8. matches_peer_stateless_reset(whole, token)
    <3>1. Len(whole) >= 21 /\ Len(whole) - Len(token) = m
      BY <2>1, <2>7
    <3> QED
      BY <2>7, <3>1 DEF matches_peer_stateless_reset, minimum_stateless_reset_datagram_size
  <2>9. Len(whole) < trigger /\ ~LongForm(whole[1]) /\ FixedBit(whole[1])
    <3>1. m + 16 < trigger
      BY <2>1
    <3> QED
      BY <2>5, <2>6, <2>7, <3>1, ZenonT(30)
  <2>10. /\ reset.ok <=> trigger > 21 /\ preferred >= 21
        /\ Len(reset.payload) < trigger
        /\ ~LongForm(reset.payload[1]) /\ FixedBit(reset.payload[1])
        /\ matches_peer_stateless_reset(reset.payload, token)
    BY <1>2, <2>4, <2>8, <2>9, ZenonT(30)
  <2> QED
    BY <2>10 DEF reset
<1> QED
  BY <1>1, <1>2

-----------------------------------------------------------------------------
\* The inductive invariant of the endpoint: both tables of routing_table show, for every
\* connection ID, the last call that wrote it, and the number of routes is within the limit.
THEOREM EndpointInvariantHolds == Spec => []EndpointInvariant
<1>1. Init => EndpointInvariant
  BY InvariantInitially
<1>2. EndpointInvariant /\ [Next]_vars => EndpointInvariant'
  <2> SUFFICES ASSUME EndpointInvariant, [Next]_vars PROVE EndpointInvariant'
    OBVIOUS
  <2>1. ASSUME NEW cid \in Cids, NEW handle \in Handles, NEW token \in ResetTokens \cup {NoToken},
               register_connection(cid, handle, token)
        PROVE  EndpointInvariant'
    BY <2>1, RegisterKeeps
  <2>2. ASSUME NEW cid \in Cids, unregister_connection(cid) PROVE EndpointInvariant'
    BY <2>2, UnregisterKeeps
  <2>3. CASE start \/ stop
    BY <2>3, OtherStepsKeep, SMTT(30) DEF start, stop
  <2>4. ASSUME NEW remote \in Remotes, NEW cid \in Cids, SendRetry(remote, cid) PROVE EndpointInvariant'
    BY <2>4, OtherStepsKeep DEF SendRetry
  <2>5. ASSUME NEW t \in Clocks, ClockMoves(t) PROVE EndpointInvariant'
    BY <2>5, OtherStepsKeep DEF ClockMoves
  <2>6. ASSUME NEW version \in {1, 2}, NEW client \in Cids, NEW server \in Cids,
               Negotiate(version, client, server)
        PROVE  EndpointInvariant'
    BY <2>6, OtherStepsKeep DEF Negotiate
  <2>7. CASE UNCHANGED vars
    BY <2>7, OtherStepsKeep DEF vars
  <2> QED
    BY <2>1, <2>2, <2>3, <2>4, <2>5, <2>6, <2>7, SMTT(30) DEF Next
<1> QED
  BY <1>1, <1>2, PTL DEF Spec

\* For any number of connections, IDs and calls, lookup_connection() returns the connection that
\* registered an ID last and has not unregistered it, and the limit on connections is kept.
THEOREM RoutesAreLatest == Spec => []RoutesToLatest
<1>1. EndpointInvariant => RoutesToLatest
  <2> SUFFICES ASSUME EndpointInvariant PROVE RoutesToLatest
    OBVIOUS
  <2>1. \A cid \in Cids : /\ cid \in DOMAIN entries <=> Route(cid)
                          /\ Route(cid) => entries[cid] = calls[LastOf(CallsOn(cid))].handle
    BY DEF EndpointInvariant, RouteKept
  <2>2. Cardinality(DOMAIN entries) <= config.max_connections
    BY DEF EndpointInvariant
  <2> QED
    BY <2>1, <2>2 DEF RoutesToLatest, Route
<1> QED
  BY <1>1, EndpointInvariantHolds, PTL

\* The token registered last for a connection ID is a reset token.
LEMMA ResetFromLastToken ==
    ASSUME EndpointInvariant, NEW cid \in Cids, TokensOf(cid) # {}
    PROVE  calls[LastOf(TokensOf(cid))].token \in ResetTokens
<1> DEFINE i == LastOf(TokensOf(cid))
<1>1. i \in TokensOf(cid)
  BY DEF EndpointInvariant, TokenKept, Latest
<1>2. i \in DOMAIN calls /\ calls[i].op = "register" /\ calls[i].token # NoToken
  BY <1>1 DEF TokensOf, CallsOn
<1>3. calls[i] \in Registration \cup Retirement
  BY <1>2 DEF EndpointInvariant
<1> HIDE DEF i
<1>4. calls[i] \in Registration
  BY <1>2, <1>3 DEF Retirement
<1>5. calls[i].token \in ResetTokens
  BY <1>2, <1>4, SMTT(30) DEF Registration
<1> QED
  BY <1>5 DEF i

\* build_stateless_reset() finds a token and no route exactly for the connection IDs that had a
\* token and were retired last, and the token it finds is the one registered last.
LEMMA GoneIsUnrouted ==
    ASSUME EndpointInvariant, NEW cid \in Cids
    PROVE  /\ (cid \notin DOMAIN entries /\ cid \in DOMAIN reset_tokens)
                <=> (TokensOf(cid) # {} /\ calls[LastOf(CallsOn(cid))].op = "unregister")
           /\ TokensOf(cid) # {} => reset_tokens[cid] = calls[LastOf(TokensOf(cid))].token
<1> DEFINE i == LastOf(CallsOn(cid))
<1>1. RouteKept(cid) /\ TokenKept(cid)
  BY DEF EndpointInvariant
<1>2. CASE TokensOf(cid) = {}
  BY <1>1, <1>2, SMTT(30) DEF TokenKept
<1>3. CASE TokensOf(cid) # {}
  <2>1. CallsOn(cid) # {}
    BY <1>3 DEF TokensOf
  <2>2. i \in CallsOn(cid)
    BY <1>1, <2>1 DEF RouteKept, Latest
  <2>3. i \in DOMAIN calls
    BY <2>2 DEF CallsOn
  <2>4. calls[i] \in Registration \cup Retirement
    BY <2>3 DEF EndpointInvariant
  <2> HIDE DEF i
  <2>5. calls[i].op = "unregister" <=> calls[i].op # "register"
    BY <2>4 DEF Registration, Retirement
  <2>6. cid \in DOMAIN entries <=> calls[i].op = "register"
    <3>1. cid \in DOMAIN entries <=> Route(cid)
      BY <1>1 DEF RouteKept
    <3>2. Route(cid) <=> calls[i].op = "register"
      BY <2>1, SMTT(30) DEF Route, i
    <3> QED
      BY <3>1, <3>2, ZenonT(30)
  <2> QED
    BY <1>1, <1>3, <2>5, <2>6, SMTT(30) DEF TokenKept, i
<1> QED
  BY <1>2, <1>3

\* build_stateless_reset() speaks exactly for the connection IDs that are gone, in packets their
\* peers recognise, however many connection IDs, tokens and calls there are.
THEOREM ResetsSpeakForTheGone == Spec => []ResetSpeaksForTheGone
<1>1. EndpointInvariant => ResetSpeaksForTheGone
  <2> DEFINE Speaks(cid, trigger, fill) ==
               LET reset == build_stateless_reset(cid, trigger, Full(fill))
                   gone == TokensOf(cid) # {} /\ calls[LastOf(CallsOn(cid))].op = "unregister"
                   token == calls[LastOf(TokensOf(cid))].token
               IN  /\ reset.ok <=> running /\ gone /\ trigger > 21 /\ config.preferred >= 21
                   /\ reset.ok =>
                        /\ Len(reset.payload) < trigger
                        /\ ~LongForm(reset.payload[1]) /\ FixedBit(reset.payload[1])
                        /\ matches_peer_stateless_reset(reset.payload, token)
                   /\ ~build_stateless_reset(cid, trigger, Broken).ok
                   /\ ~build_stateless_reset(cid, trigger, Short(fill)).ok
  <2> SUFFICES ASSUME EndpointInvariant,
                      NEW cid \in Cids, NEW trigger \in TriggerSizes, NEW fill \in RandomFills
               PROVE  Speaks(cid, trigger, fill)
    BY Zenon DEF ResetSpeaksForTheGone
  <2> HIDE DEF Speaks
  <2> DEFINE reset == build_stateless_reset(cid, trigger, Full(fill))
             failed == build_stateless_reset(cid, trigger, Broken)
             short == build_stateless_reset(cid, trigger, Short(fill))
             gone == TokensOf(cid) # {} /\ calls[LastOf(CallsOn(cid))].op = "unregister"
             token == calls[LastOf(TokensOf(cid))].token
             full == build_stateless_reset_packet(token, trigger, config.preferred, Full(fill))
             none == build_stateless_reset_packet(token, trigger, config.preferred, Broken)
             less == build_stateless_reset_packet(token, trigger, config.preferred, Short(fill))
  <2>1. trigger \in Nat /\ config.preferred \in Nat /\ fill \in Byte
    BY EndpointAssumption, SMTT(30) DEF EndpointInvariant
  <2>2. CASE ~(running /\ gone)
    <3>1. ~running \/ cid \in DOMAIN entries \/ cid \notin DOMAIN reset_tokens
      BY <2>2, GoneIsUnrouted
    <3>2. ~reset.ok /\ ~failed.ok /\ ~short.ok
      BY <3>1 DEF build_stateless_reset, Failed
    <3> HIDE DEF reset, failed, short, gone
    <3>3. /\ reset.ok <=> running /\ gone /\ trigger > 21 /\ config.preferred >= 21
          /\ ~reset.ok /\ ~failed.ok /\ ~short.ok
      BY <2>2, <3>2, ZenonT(30)
    <3> QED
      BY <3>3 DEF Speaks, reset, failed, short, gone
  <2>3. CASE running /\ gone
    <3>1. running /\ cid \notin DOMAIN entries /\ cid \in DOMAIN reset_tokens /\ reset_tokens[cid] = token
      BY <2>3, GoneIsUnrouted
    <3>2. token \in [1..16 -> Byte]
      BY <2>3, ResetFromLastToken, EndpointAssumption, ZenonT(30)
    <3>3. reset = full /\ failed = none /\ short = less
      BY <3>1 DEF build_stateless_reset
    <3>4. /\ full.ok <=> trigger > 21 /\ config.preferred >= 21
          /\ full.ok => /\ Len(full.payload) < trigger
                        /\ ~LongForm(full.payload[1]) /\ FixedBit(full.payload[1])
                        /\ matches_peer_stateless_reset(full.payload, token)
      <4> HIDE DEF token
      <4> QED
        BY <2>1, <3>2, ResetPacket, Zenon
    <3>5. ~none.ok /\ ~less.ok
      <4> HIDE DEF token
      <4> QED
        BY <2>1, NoResetWithoutRandom, Zenon
    <3> HIDE DEF reset, failed, short, full, none, less, gone, token
    <3>6. /\ reset.ok <=> running /\ gone /\ trigger > 21 /\ config.preferred >= 21
          /\ reset.ok => /\ Len(reset.payload) < trigger
                         /\ ~LongForm(reset.payload[1]) /\ FixedBit(reset.payload[1])
                         /\ matches_peer_stateless_reset(reset.payload, token)
          /\ ~failed.ok /\ ~short.ok
      BY <2>3, <3>3, <3>4, <3>5, Zenon
    <3> QED
      BY <3>6 DEF Speaks, reset, failed, short, gone, token
  <2> HIDE DEF gone
  <2> QED
    BY <2>2, <2>3, Zenon
<1> QED
  BY <1>1, EndpointInvariantHolds, PTL

====
