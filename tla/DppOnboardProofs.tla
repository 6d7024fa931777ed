-------------------------- MODULE DppOnboardProofs --------------------------
(***************************************************************************)
(* Onboarding with EasyConnect, for any proxy agents, number of fragments, *)
(* announcements and losses: the types, and that the controller notes an   *)
(* enrollee as onboarded only while the connector it holds is for its key. *)
(***************************************************************************)
EXTENDS DppOnboard, SequenceTheorems, TLAPS

-----------------------------------------------------------------------------
(* Types.                                                                  *)

\* The keys that an authentication makes: the second part counts from 1.
Kes == Nat \X (Nat \ {0})
Rsps == [ke : Kes, key : Nat, ok : BOOLEAN, parts : 1..Frags]
Fragments == {f \in [of : Rsps, i : Nat, more : BOOLEAN] : f.i < f.of.parts}

Msgs ==
    [type : {"chirp"}, pa : PAs, n : Nat]
    \cup [type : {"auth_req"}, pa : PAs, i : Nat, n : Nat]
    \cup [type : {"store_req"}, pa : PAs, i : Nat]
    \cup [type : {"auth_rsp", "auth_cnf"}, pa : PAs, ke : Kes]
    \cup [type : {"cfg_req", "cfg_result"}, pa : PAs, ke : Kes, nonce : Nat]
    \cup [type : {"cfg_rsp", "initial_rsp"}, pa : PAs, rsp : Rsps]
    \cup [type : {"prepare"}, pa : PAs, n : Nat]
    \cup [type : {"comeback_req"}, pa : PAs, n : Nat, i : Nat]
    \cup [type : {"fragment"}, pa : PAs, frag : Fragments]

EnrolleeTyped ==
    /\ announcing \in BOOLEAN /\ context \in BOOLEAN
    /\ eKe \in Kes \cup {None}
    /\ answered \in Nat /\ nonce \in Nat /\ connector \in Nat
    /\ expected \in [PAs -> Seq(Rsps)]
    /\ \A p \in PAs : Len(expected[p]) <= Frags

ProxyTyped ==
    /\ cache \in [PAs -> Nat]
    /\ gas \in [PAs -> Seq(Fragments)]
    /\ \A p \in PAs : Len(gas[p]) <= Frags

CtrlTyped ==
    /\ request \in Nat /\ cNonce \in Nat
    /\ cKe \in Kes \cup {None}
    /\ complete \in BOOLEAN /\ refused \in BOOLEAN

\* No proxy agent has a request that the controller has not made yet.
NetTyped ==
    /\ net \subseteq Msgs
    /\ \A p \in PAs : cache[p] <= request
    /\ \A m \in net : m.type = "store_req" => m.i <= request
    /\ chirps \in 0..MaxChirps /\ lost \in 0..MaxLost

Typed == EnrolleeTyped /\ ProxyTyped /\ CtrlTyped /\ NetTyped

LEMMA Fields ==
    ASSUME NEW m \in Msgs
    PROVE  /\ m.pa \in PAs
           /\ m.type \in {"chirp", "prepare", "comeback_req"} => m.n \in Nat
           /\ m.type \in {"auth_req", "store_req"} => m.i \in Nat
           /\ m.type \in {"auth_rsp", "auth_cnf", "cfg_req", "cfg_result"} => m.ke \in Kes
           /\ m.type \in {"cfg_req", "cfg_result"} => m.nonce \in Nat
           /\ m.type \in {"cfg_rsp", "initial_rsp"} => m.rsp \in Rsps
           /\ m.type = "fragment" => m.frag \in Fragments
  BY DEF Msgs

LEMMA KeFacts ==
    ASSUME NEW k \in Kes
    PROVE  k[1] \in Nat /\ k[2] \in Nat /\ k[2] # 0 /\ k # None
  BY DEF Kes, None

\* A message that is answered by one that is typed leaves the others.
LEMMA RepliesTyped ==
    ASSUME NEW m, NEW x \in Msgs, NetTyped, Replies(m, {x}), x.type # "store_req"
    PROVE  /\ net' \subseteq Msgs
           /\ \A y \in net' : y.type = "store_req" => y \in net
  BY DEF Replies, NetTyped

LEMMA DropsTyped ==
    ASSUME NEW m, NetTyped, Drops(m)
    PROVE  /\ net' \subseteq Msgs
           /\ \A y \in net' : y \in net
  BY DEF Drops, Replies, NetTyped

LEMMA TypedStart == Init => Typed
<1> SUFFICES ASSUME Init PROVE Typed
  OBVIOUS
<1>1. << >> \in Seq(Rsps) /\ << >> \in Seq(Fragments) /\ Len(<< >>) = 0
  OBVIOUS
<1>2. EnrolleeTyped
  BY <1>1, DppAssumption DEF Init, EnrolleeTyped
<1>3. ProxyTyped
  BY <1>1, DppAssumption DEF Init, ProxyTyped
<1>4. CtrlTyped
  BY DEF Init, CtrlTyped
<1>5. NetTyped
  BY DppAssumption DEF Init, NetTyped
<1> QED BY <1>2, <1>3, <1>4, <1>5 DEF Typed

\* The fragments of a response: as many as it needs, numbered from 0.
LEMMA FragmentsOf ==
    ASSUME NEW r \in Rsps
    PROVE  /\ fragment_large_frame(r) \in Seq(Fragments)
           /\ Len(fragment_large_frame(r)) = r.parts
           /\ \A i \in 1..r.parts : fragment_large_frame(r)[i].of = r
<1> DEFINE f(i) == [of |-> r, i |-> i - 1, more |-> i < r.parts]
<1>1. \A i \in 1..r.parts : f(i) \in Fragments /\ f(i).of = r
  <2> SUFFICES ASSUME NEW i \in 1..r.parts PROVE f(i) \in Fragments /\ f(i).of = r
    OBVIOUS
  <2>1. r.parts \in Nat /\ i - 1 \in Nat /\ i - 1 < r.parts /\ (i < r.parts) \in BOOLEAN
    BY DEF Rsps
  <2> QED BY <2>1 DEF Fragments
<1>2. r.parts \in Nat
  BY DppAssumption DEF Rsps
<1> HIDE DEF f
<1>3. [i \in 1..r.parts |-> f(i)] \in Seq(Fragments) /\ Len([i \in 1..r.parts |-> f(i)]) = r.parts
  BY <1>1, <1>2, IsASeq
<1>4. fragment_large_frame(r) = [i \in 1..r.parts |-> f(i)]
  BY DEF fragment_large_frame, f
<1> QED BY <1>1, <1>3, <1>4

\* A handler of the enrollee that fails leaves no key.
LEMMA FailsTyped ==
    ASSUME NEW m, Typed, Fails(m)
    PROVE  /\ context' \in BOOLEAN /\ eKe' \in Kes \cup {None}
           /\ net' \subseteq Msgs /\ \A y \in net' : y \in net
  BY DropsTyped DEF Typed, Fails

\* Authentication.
LEMMA AuthTyped ==
    ASSUME Typed, NEW m \in net,
           \/ process_chirp_notification(m) \/ StoreAuthRequest(m)
           \/ handle_auth_request(m) \/ handle_auth_response(m) \/ handle_auth_confirm(m)
    PROVE  Typed'
<1> USE DEF Typed, enrollee, proxy, ctrl
<1>m. m \in Msgs
  BY DEF NetTyped
<1>1. CASE process_chirp_notification(m)
  <2> USE <1>1 DEF process_chirp_notification
  <2>1. m.pa \in PAs
    BY <1>m, Fields
  <2>2. request' \in Nat /\ request' = request + 1
    BY DEF CtrlTyped
  <2>3. PICK x : x = [type |-> "store_req", pa |-> m.pa, i |-> request']
    OBVIOUS
  <2>4. x \in Msgs /\ x.i = request'
    BY <2>1, <2>2, <2>3 DEF Msgs
  <2>5. net' \subseteq net \cup {x}
    BY <2>3 DEF Replies
  <2>6. \A y \in net' : y.type = "store_req" => y.i <= request'
    <3> SUFFICES ASSUME NEW y \in net', y.type = "store_req" PROVE y.i <= request'
      OBVIOUS
    <3>1. CASE y \in net
      <4>1. y.i \in Nat /\ y.i <= request
        BY <3>1, Fields DEF NetTyped
      <4> QED BY <2>2, <4>1 DEF CtrlTyped
    <3> QED BY <2>2, <2>4, <2>5, <3>1
  <2>7. \A p \in PAs : cache'[p] <= request'
    BY <2>2 DEF NetTyped, ProxyTyped, CtrlTyped
  <2> QED BY <2>2, <2>4, <2>5, <2>6, <2>7 DEF NetTyped, EnrolleeTyped, ProxyTyped, CtrlTyped
<1>2. CASE StoreAuthRequest(m)
  <2> USE <1>2 DEF StoreAuthRequest
  <2>1. m.pa \in PAs /\ m.i \in Nat /\ m.i <= request
    BY <1>m, Fields DEF NetTyped, Receive
  <2>2. cache' \in [PAs -> Nat] /\ \A p \in PAs : cache'[p] <= request
    BY <2>1 DEF ProxyTyped, NetTyped
  <2>3. net' \subseteq Msgs /\ \A y \in net' : y \in net
    BY DropsTyped
  <2> QED BY <2>2, <2>3 DEF NetTyped, EnrolleeTyped, ProxyTyped, CtrlTyped
<1>3. CASE handle_auth_request(m)
  <2> USE <1>3 DEF handle_auth_request
  <2>1. m.pa \in PAs /\ m.i \in Nat
    BY <1>m, Fields DEF Receive
  <2>2. CASE context /\ answered' = answered + 1
    <3>1. eKe' = <<m.i, answered'>> /\ Replies(m, {[type |-> "auth_rsp", pa |-> m.pa, ke |-> eKe']})
          /\ UNCHANGED context
      BY <2>2 DEF EnrolleeTyped
    <3>2. answered' \in Nat /\ eKe' \in Kes
      BY <2>1, <2>2, <3>1 DEF EnrolleeTyped, Kes
    <3>3. PICK x : x = [type |-> "auth_rsp", pa |-> m.pa, ke |-> eKe']
      OBVIOUS
    <3>4. x \in Msgs /\ x.type = "auth_rsp"
      BY <2>1, <3>2, <3>3 DEF Msgs
    <3>5. net' \subseteq Msgs /\ \A y \in net' : y.type = "store_req" => y \in net
      BY <3>1, <3>3, <3>4, RepliesTyped
    <3> QED BY <3>1, <3>2, <3>5 DEF NetTyped, EnrolleeTyped, ProxyTyped, CtrlTyped
  <2>3. CASE Fails(m) /\ UNCHANGED answered
    BY <2>3, FailsTyped DEF NetTyped, EnrolleeTyped, ProxyTyped, CtrlTyped
  <2> QED BY <2>2, <2>3
<1>4. CASE handle_auth_response(m)
  <2> USE <1>4 DEF handle_auth_response
  <2>1. m.pa \in PAs /\ m.ke \in Kes
    BY <1>m, Fields DEF Receive
  <2>2. PICK x : x = [type |-> "auth_cnf", pa |-> m.pa, ke |-> m.ke]
    OBVIOUS
  <2>3. x \in Msgs /\ x.type = "auth_cnf"
    BY <2>1, <2>2 DEF Msgs
  <2>4. net' \subseteq Msgs /\ \A y \in net' : y.type = "store_req" => y \in net
    BY <2>2, <2>3, RepliesTyped, DropsTyped
  <2>5. cKe' \in Kes \cup {None}
    BY <2>1 DEF CtrlTyped
  <2> QED BY <2>4, <2>5 DEF NetTyped, EnrolleeTyped, ProxyTyped, CtrlTyped
<1>5. CASE handle_auth_confirm(m)
  <2> USE <1>5 DEF handle_auth_confirm
  <2>1. m.pa \in PAs /\ m.ke \in Kes
    BY <1>m, Fields DEF Receive
  <2>2. CASE eKe = m.ke
    <3>1. nonce' = nonce + 1 /\ UNCHANGED <<context, eKe>>
          /\ Replies(m, {[type |-> "cfg_req", pa |-> m.pa, ke |-> m.ke, nonce |-> nonce']})
      BY <2>2
    <3>2. nonce' \in Nat
      BY <3>1 DEF EnrolleeTyped
    <3>3. PICK x : x = [type |-> "cfg_req", pa |-> m.pa, ke |-> m.ke, nonce |-> nonce']
      OBVIOUS
    <3>4. x \in Msgs /\ x.type = "cfg_req"
      BY <2>1, <3>2, <3>3 DEF Msgs
    <3>5. net' \subseteq Msgs /\ \A y \in net' : y.type = "store_req" => y \in net
      BY <3>1, <3>3, <3>4, RepliesTyped
    <3> QED BY <3>1, <3>2, <3>5 DEF NetTyped, EnrolleeTyped, ProxyTyped, CtrlTyped
  <2>3. CASE eKe # m.ke
    BY <2>3, FailsTyped DEF NetTyped, EnrolleeTyped, ProxyTyped, CtrlTyped
  <2> QED BY <2>2, <2>3
<1> QED BY <1>1, <1>2, <1>3, <1>4, <1>5

\* The controller's and the proxy agents' part of the configuration.
LEMMA ProxiedTyped ==
    ASSUME Typed, NEW m \in net,
           \/ handle_proxied_dpp_configuration_request(m) \/ ProxyResponse(m)
           \/ GasPrepare(m) \/ handle_gas_comeback_request(m)
           \/ handle_proxied_config_result_frame(m)
    PROVE  Typed'
<1> USE DEF Typed, enrollee, proxy, ctrl
<1>m. m \in Msgs
  BY DEF NetTyped
<1>1. CASE handle_proxied_dpp_configuration_request(m)
  <2> USE <1>1 DEF handle_proxied_dpp_configuration_request
  <2>1. m.pa \in PAs /\ m.ke \in Kes /\ m.nonce \in Nat
    BY <1>m, Fields DEF Receive
  <2>2. CASE cKe = m.ke
    <3>1. PICK ok \in BOOLEAN, parts \in 1..Frags :
            /\ refused' = (refused \/ ~ok)
            /\ Replies(m, {[type |-> "cfg_rsp", pa |-> m.pa, rsp |->
                                [ke |-> m.ke, key |-> m.nonce, ok |-> ok, parts |-> parts]]})
      BY <2>2
    <3>2. PICK r : r = [ke |-> m.ke, key |-> m.nonce, ok |-> ok, parts |-> parts]
      OBVIOUS
    <3>3. r \in Rsps
      BY <2>1, <3>2 DEF Rsps
    <3>4. PICK x : x = [type |-> "cfg_rsp", pa |-> m.pa, rsp |-> r]
      OBVIOUS
    <3>5. x \in Msgs /\ x.type = "cfg_rsp"
      BY <2>1, <3>3, <3>4 DEF Msgs
    <3>6. net' \subseteq Msgs /\ \A y \in net' : y.type = "store_req" => y \in net
      BY <3>1, <3>2, <3>4, <3>5, RepliesTyped
    <3>7. refused' \in BOOLEAN /\ cNonce' \in Nat
      BY <2>1, <2>2, <3>1 DEF CtrlTyped
    <3> QED BY <3>6, <3>7 DEF NetTyped, EnrolleeTyped, ProxyTyped, CtrlTyped
  <2>3. CASE cKe # m.ke
    BY <2>3, DropsTyped DEF NetTyped, EnrolleeTyped, ProxyTyped, CtrlTyped
  <2> QED BY <2>2, <2>3
<1>2. CASE ProxyResponse(m)
  <2> USE <1>2 DEF ProxyResponse
  <2>1. m.pa \in PAs /\ m.rsp \in Rsps /\ m.rsp.key \in Nat
    BY <1>m, Fields DEF Receive, Rsps
  <2>2. gas' \in [PAs -> Seq(Fragments)] /\ \A p \in PAs : Len(gas'[p]) <= Frags
    <3>1. CASE UNCHANGED gas
      BY <3>1 DEF ProxyTyped
    <3>2. CASE gas' = [gas EXCEPT ![m.pa] = fragment_large_frame(m.rsp)]
      <4>1. Len(fragment_large_frame(m.rsp)) <= Frags
        BY <2>1, FragmentsOf, DppAssumption DEF Rsps
      <4> QED BY <2>1, <3>2, <4>1, FragmentsOf DEF ProxyTyped
    <3> QED BY <3>1, <3>2
  <2>3. PICK x, y : /\ x = [type |-> "prepare", pa |-> m.pa, n |-> m.rsp.key]
                    /\ y = [type |-> "initial_rsp", pa |-> m.pa, rsp |-> m.rsp]
    OBVIOUS
  <2>4. x \in Msgs /\ y \in Msgs /\ x.type = "prepare" /\ y.type = "initial_rsp"
    BY <2>1, <2>3 DEF Msgs
  <2>5. net' \subseteq Msgs /\ \A z \in net' : z.type = "store_req" => z \in net
    BY <2>3, <2>4, RepliesTyped
  <2> QED BY <2>2, <2>5 DEF NetTyped, EnrolleeTyped, ProxyTyped, CtrlTyped
<1>3. CASE GasPrepare(m)
  <2> USE <1>3 DEF GasPrepare
  <2>1. m.pa \in PAs /\ m.n \in Nat
    BY <1>m, Fields DEF Receive
  <2>2. PICK x : x = [type |-> "comeback_req", pa |-> m.pa, n |-> m.n, i |-> 0]
    OBVIOUS
  <2>3. x \in Msgs /\ x.type = "comeback_req"
    BY <2>1, <2>2 DEF Msgs
  <2>4. net' \subseteq Msgs /\ \A y \in net' : y.type = "store_req" => y \in net
    BY <2>2, <2>3, RepliesTyped
  <2> QED BY <2>4 DEF NetTyped, EnrolleeTyped, ProxyTyped, CtrlTyped
<1>4. CASE handle_gas_comeback_request(m)
  <2> USE <1>4 DEF handle_gas_comeback_request
  <2>1. m.pa \in PAs /\ gas[m.pa] \in Seq(Fragments)
    BY <1>m, Fields DEF ProxyTyped
  <2>2. CASE gas[m.pa] # << >>
    <3>1. /\ Head(gas[m.pa]) \in Fragments
          /\ Tail(gas[m.pa]) \in Seq(Fragments) /\ Len(Tail(gas[m.pa])) <= Len(gas[m.pa])
      BY <2>1, <2>2, HeadTailProperties
    <3>2. gas' \in [PAs -> Seq(Fragments)] /\ \A p \in PAs : Len(gas'[p]) <= Frags
      <4>1. Len(Tail(gas[m.pa])) <= Frags
        BY <2>1, <3>1, DppAssumption, LenProperties DEF ProxyTyped
      <4> QED BY <2>1, <2>2, <3>1, <4>1 DEF ProxyTyped
    <3>3. PICK x : x = [type |-> "fragment", pa |-> m.pa, frag |-> Head(gas[m.pa])]
      OBVIOUS
    <3>4. x \in Msgs /\ x.type = "fragment"
      BY <2>1, <3>1, <3>3 DEF Msgs
    <3>5. net' \subseteq Msgs /\ \A y \in net' : y.type = "store_req" => y \in net
      BY <2>2, <3>3, <3>4, RepliesTyped
    <3> QED BY <3>2, <3>5 DEF NetTyped, EnrolleeTyped, ProxyTyped, CtrlTyped
  <2>3. CASE gas[m.pa] = << >>
    BY <2>3, DropsTyped DEF NetTyped, EnrolleeTyped, ProxyTyped, CtrlTyped
  <2> QED BY <2>2, <2>3
<1>5. CASE handle_proxied_config_result_frame(m)
  <2> USE <1>5 DEF handle_proxied_config_result_frame
  <2>1. complete' \in BOOLEAN
    BY DEF CtrlTyped
  <2> QED BY <2>1, DropsTyped DEF NetTyped, EnrolleeTyped, ProxyTyped, CtrlTyped
<1> QED BY <1>1, <1>2, <1>3, <1>4, <1>5

\* The enrollee's part of it.
LEMMA ResponseTyped ==
    ASSUME Typed, NEW m \in Msgs, NEW body \in Seq(Rsps), Len(body) > 0,
           handle_config_response(m, body)
    PROVE  /\ connector' \in Nat /\ context' \in BOOLEAN /\ eKe' \in Kes \cup {None}
           /\ net' \subseteq Msgs /\ \A y \in net' : y.type = "store_req" => y \in net
<1>1. CASE Accepted(body)
  <2>1. body[1] \in Rsps
    BY ElementOfSeq
  <2>2. connector' = body[1].key /\ UNCHANGED <<context, eKe>> /\ eKe = body[1].ke
    BY <1>1 DEF handle_config_response, Accepted
  <2>3. PICK x : x = [type |-> "cfg_result", pa |-> m.pa, ke |-> eKe, nonce |-> nonce]
    OBVIOUS
  <2>4. x \in Msgs /\ x.type = "cfg_result"
    <3>1. m.pa \in PAs /\ eKe \in Kes /\ nonce \in Nat
      BY <2>1, <2>2, Fields DEF Rsps, Typed, EnrolleeTyped
    <3> QED BY <3>1, <2>3 DEF Msgs
  <2>5. net' \subseteq Msgs /\ \A y \in net' : y.type = "store_req" => y \in net
    BY <1>1, <2>3, <2>4, RepliesTyped DEF handle_config_response, Typed
  <2> QED BY <2>1, <2>2, <2>5 DEF Rsps, Typed, EnrolleeTyped
<1>2. CASE ~Accepted(body)
  BY <1>2, FailsTyped DEF handle_config_response, Typed, EnrolleeTyped
<1> QED BY <1>1, <1>2

LEMMA GasTyped ==
    ASSUME Typed, NEW m \in net,
           handle_gas_initial_response(m) \/ handle_gas_comeback_response(m)
    PROVE  Typed'
<1> USE DEF enrollee, proxy, ctrl
<1>m. m \in Msgs
  BY DEF NetTyped, Typed
<1>1. CASE handle_gas_initial_response(m)
  <2> USE <1>1 DEF handle_gas_initial_response
  <2>1. m.rsp \in Rsps
    BY <1>m, Fields DEF Receive
  <2>2. <<m.rsp>> \in Seq(Rsps) /\ Len(<<m.rsp>>) > 0
    BY <2>1
  <2>3. /\ connector' \in Nat /\ context' \in BOOLEAN /\ eKe' \in Kes \cup {None}
        /\ net' \subseteq Msgs /\ \A y \in net' : y.type = "store_req" => y \in net
    BY <1>m, <2>2, ResponseTyped
  <2> QED BY <2>3 DEF Typed, NetTyped, EnrolleeTyped, ProxyTyped, CtrlTyped
<1>2. CASE handle_gas_comeback_response(m)
  <2>1. /\ m.pa \in PAs /\ m.frag \in Fragments
        /\ m.frag.of \in Rsps /\ m.frag.i \in Nat /\ m.frag.i < m.frag.of.parts
    BY <1>2, <1>m, Fields DEF Receive, handle_gas_comeback_response, Fragments
  <2>2. expected[m.pa] \in Seq(Rsps) /\ Len(expected[m.pa]) \in Nat
    BY <2>1, LenProperties DEF Typed, EnrolleeTyped
  <2>3. PICK body : body = Append(expected[m.pa], m.frag.of)
    OBVIOUS
  <2>4. body \in Seq(Rsps) /\ Len(body) = Len(expected[m.pa]) + 1
    BY <2>1, <2>2, <2>3, AppendProperties
  <2>5. m.frag.i = Len(expected[m.pa]) => Len(body) <= Frags
    <3>1. m.frag.of.parts \in 1..Frags
      BY <2>1 DEF Rsps
    <3> QED BY <2>1, <2>2, <2>4, <3>1, DppAssumption
  <2>6. CASE Fails(m) /\ UNCHANGED <<connector, expected>>
    <3>1. UNCHANGED <<announcing, answered, nonce, proxy, ctrl, chirps, lost>>
      BY <1>2 DEF handle_gas_comeback_response
    <3> QED BY <2>6, <3>1, FailsTyped DEF Typed, NetTyped, EnrolleeTyped, ProxyTyped, CtrlTyped
  <2>7. CASE /\ m.frag.i = Len(expected[m.pa]) /\ m.frag.more
             /\ expected' = [expected EXCEPT ![m.pa] = body]
             /\ Replies(m, {[type |-> "comeback_req", pa |-> m.pa, n |-> m.frag.of.key, i |-> Len(body)]})
             /\ UNCHANGED <<context, eKe, connector>>
    <3>1. expected' \in [PAs -> Seq(Rsps)] /\ \A p \in PAs : Len(expected'[p]) <= Frags
      BY <2>1, <2>4, <2>5, <2>7 DEF Typed, EnrolleeTyped
    <3>2. PICK x : x = [type |-> "comeback_req", pa |-> m.pa, n |-> m.frag.of.key, i |-> Len(body)]
      OBVIOUS
    <3>3. x \in Msgs /\ x.type = "comeback_req"
      BY <2>1, <2>2, <2>4, <3>2 DEF Msgs, Rsps
    <3>4. net' \subseteq Msgs /\ \A y \in net' : y.type = "store_req" => y \in net
      BY <2>7, <3>2, <3>3, RepliesTyped DEF Typed
    <3>5. UNCHANGED <<announcing, answered, nonce, proxy, ctrl, chirps, lost>>
      BY <1>2 DEF handle_gas_comeback_response
    <3> QED BY <2>7, <3>1, <3>4, <3>5 DEF Typed, NetTyped, EnrolleeTyped, ProxyTyped, CtrlTyped
  <2>8. CASE /\ m.frag.i = Len(expected[m.pa]) /\ ~m.frag.more
             /\ expected' = [expected EXCEPT ![m.pa] = IF Accepted(body) THEN << >> ELSE body]
             /\ handle_config_response(m, body)
    <3>1. /\ connector' \in Nat /\ context' \in BOOLEAN /\ eKe' \in Kes \cup {None}
          /\ net' \subseteq Msgs /\ \A y \in net' : y.type = "store_req" => y \in net
      BY <1>m, <2>2, <2>4, <2>8, ResponseTyped
    <3>2. PICK e : e = IF Accepted(body) THEN << >> ELSE body
      OBVIOUS
    <3>3. e \in Seq(Rsps) /\ Len(e) <= Frags
      BY <2>4, <2>5, <2>8, <3>2, DppAssumption
    <3>4. expected' \in [PAs -> Seq(Rsps)] /\ \A p \in PAs : Len(expected'[p]) <= Frags
      BY <2>1, <2>8, <3>2, <3>3 DEF Typed, EnrolleeTyped
    <3>5. UNCHANGED <<announcing, answered, nonce, proxy, ctrl, chirps, lost>>
      BY <1>2 DEF handle_gas_comeback_response
    <3> QED BY <3>1, <3>4, <3>5 DEF Typed, NetTyped, EnrolleeTyped, ProxyTyped, CtrlTyped
  <2> QED BY <1>2, <2>3, <2>6, <2>7, <2>8 DEF handle_gas_comeback_response
<1> QED BY <1>1, <1>2

LEMMA TypedKept == Typed /\ [Next]_vars => Typed'
<1> SUFFICES ASSUME Typed, [Next]_vars PROVE Typed'
  OBVIOUS
<1>1. CASE \E p \in PAs : Announce(p)
  <2> PICK p \in PAs : Announce(p)
    BY <1>1
  <2>1. cache[p] \in Nat /\ chirps \in Nat /\ chirps' = chirps + 1 /\ chirps' \in 0..MaxChirps
    BY DppAssumption DEF Announce, Typed, NetTyped, ProxyTyped
  <2>2. PICK x, y : /\ x = [type |-> "chirp", pa |-> p, n |-> chirps]
                    /\ y = [type |-> "auth_req", pa |-> p, i |-> cache[p], n |-> chirps]
    OBVIOUS
  <2>3. x \in Msgs /\ y \in Msgs /\ x.type = "chirp" /\ y.type = "auth_req"
    BY <2>1, <2>2 DEF Msgs
  <2>4. net' \subseteq net \cup {x, y}
    BY <2>2 DEF Announce
  <2>5. net' \subseteq Msgs /\ \A z \in net' : z.type = "store_req" => z \in net
    BY <2>3, <2>4 DEF Typed, NetTyped
  <2> QED BY <2>1, <2>5 DEF Announce, enrollee, proxy, ctrl, Typed, NetTyped, EnrolleeTyped, ProxyTyped, CtrlTyped
<1>2. CASE \E m \in net : Lose(m)
  <2> PICK m \in net : Lose(m)
    BY <1>2
  <2>1. net' \subseteq Msgs /\ \A y \in net' : y \in net
    BY DropsTyped DEF Lose, Typed
  <2>2. lost' \in 0..MaxLost
    BY DppAssumption DEF Lose, Typed, NetTyped
  <2> QED BY <2>1, <2>2 DEF Lose, enrollee, proxy, ctrl, Typed, NetTyped, EnrolleeTyped, ProxyTyped, CtrlTyped
<1>3. CASE \E m \in net : Handle(m)
  BY <1>3, AuthTyped, ProxiedTyped, GasTyped DEF Handle
<1>4. CASE UNCHANGED vars
  BY <1>4 DEF vars, enrollee, proxy, ctrl, Typed, NetTyped, EnrolleeTyped, ProxyTyped, CtrlTyped
<1> QED BY <1>1, <1>2, <1>3, <1>4 DEF Next

\* What the three sides keep has its types; no response is put together of
\* more fragments than it needs, nor is a request stored at a proxy agent that
\* the controller has not made.
THEOREM DppTypes == Spec => []TypeOK
<1>1. Typed => TypeOK
  <2> SUFFICES ASSUME Typed PROVE TypeOK
    OBVIOUS
  <2>1. eKe \in Nat \X Nat /\ cKe \in Nat \X Nat
    BY DEF Typed, EnrolleeTyped, CtrlTyped, Kes, None
  <2>2. \A m \in net : m.pa \in PAs
    BY Fields DEF Typed, NetTyped
  <2> QED BY <2>1, <2>2 DEF Typed, TypeOK, EnrolleeTyped, ProxyTyped, CtrlTyped, NetTyped
<1> QED BY TypedStart, TypedKept, <1>1, PTL DEF Spec

-----------------------------------------------------------------------------
(* The keys of an authentication: k_e is used in the order authentication,  *)
(* request, response, result, and never twice.                              *)

\* The response r is on its way, at a proxy agent or at the enrollee.
Carried(r) ==
    \/ \E m \in net : m.type \in {"cfg_rsp", "initial_rsp"} /\ m.rsp = r
    \/ \E m \in net : m.type = "fragment" /\ m.frag.of = r
    \/ \E p \in PAs : \E i \in 1..Len(gas[p]) : gas[p][i].of = r
    \/ \E p \in PAs : \E i \in 1..Len(expected[p]) : expected[p][i] = r

\* The configuration with k has begun.
Used(k) ==
    \/ \E m \in net : m.type \in {"cfg_req", "cfg_result"} /\ m.ke = k
    \/ \E r \in Rsps : Carried(r) /\ r.ke = k

Auth == {"auth_rsp", "auth_cnf"}

\* Every key is of an authentication that the enrollee has answered.
Past ==
    /\ \A m \in net : m.type \in Auth => m.ke[2] <= answered
    /\ \A k \in Kes : Used(k) => k[2] <= answered

\* One message of an authentication, and the configuration comes after it.
Once ==
    /\ \A m1, m2 \in net : m1.type \in Auth /\ m2.type \in Auth /\ m1.ke = m2.ke => m1 = m2
    /\ \A m \in net : m.type \in Auth => ~Used(m.ke)

\* What is wrapped with the enrollee's k_e is for the key it holds.
ForKey ==
    /\ \A m \in net : m.type = "cfg_req" /\ m.ke = eKe => m.nonce = nonce /\ nonce # 0
    /\ \A r \in Rsps : Carried(r) /\ r.ke = eKe => r.key = nonce /\ nonce # 0

\* While a confirmation is on its way that will change the enrollee's key, no
\* result is, that the controller would accept.
Turn == \A m \in net : m.type = "auth_cnf" /\ m.ke = eKe => cKe = m.ke \/ ~Used(cKe)

\* A result that the controller can unwrap is true.
TrueResult == \A m \in net : m.type = "cfg_result" /\ m.ke = cKe => connector = nonce /\ connector # 0

KInv == Past /\ Once /\ ForKey /\ Turn /\ TrueResult

LEMMA KStart == Init => KInv
<1> SUFFICES ASSUME Init PROVE KInv
  OBVIOUS
<1>1. \A p \in PAs : Len(gas[p]) = 0 /\ Len(expected[p]) = 0
  BY DEF Init
<1>2. \A k : ~Used(k)
  BY <1>1 DEF Init, Used, Carried
<1>3. \A r : ~Carried(r)
  BY <1>1 DEF Init, Carried
<1> QED BY <1>2, <1>3 DEF Init, KInv, Past, Once, ForKey, Turn, TrueResult

\* Of the messages with a key none are new but those in N, and no response is.
Fewer(N) ==
    /\ \A x \in net' : x.type \in Auth \cup {"cfg_req", "cfg_result"} => x \in net \cup N
    /\ \A r \in Rsps : Carried(r)' => Carried(r)

LEMMA FewerUsed ==
    ASSUME Fewer({}), NEW k
    PROVE  Used(k)' => Used(k)
  BY DEF Fewer, Used

\* A step that makes nothing new, and at most loses the enrollee's key.
LEMMA QuietKeeps ==
    ASSUME KInv, Typed, Typed', Fewer({}), UNCHANGED <<answered, nonce, connector, cKe>>,
           eKe' \in {eKe, None}
    PROVE  KInv'
<1>0. \A m \in net' : m \in Msgs
  BY DEF Typed, NetTyped
<1>1. \A m \in net' : m.type \in Auth \cup {"cfg_req", "cfg_result"} => m.ke \in Kes /\ m.ke # None /\ m \in net
  BY <1>0, Fields, KeFacts DEF Auth, Fewer
<1>2. \A k : Used(k)' => Used(k)
  BY FewerUsed
<1>3. Past'
  BY <1>1, <1>2 DEF KInv, Past
<1>4. Once'
  BY <1>1, <1>2 DEF KInv, Once
<1>5. ForKey'
  <2>1. \A r \in Rsps : r.ke # None
    BY KeFacts DEF Rsps
  <2> QED BY <1>1, <2>1 DEF KInv, ForKey, Fewer
<1>6. Turn'
  BY <1>1, <1>2 DEF KInv, Turn, Auth
<1>7. TrueResult'
  BY <1>1 DEF KInv, TrueResult
<1> QED BY <1>3, <1>4, <1>5, <1>6, <1>7 DEF KInv

\* The enrollee answers a request with a key of its own.
LEMMA AuthRequestKeeps ==
    ASSUME KInv, Typed, Typed', NEW x \in Msgs, x.type = "auth_rsp", x.ke = eKe', Fewer({x}),
           answered' = answered + 1, eKe'[2] = answered', eKe' \in Kes,
           UNCHANGED <<nonce, connector, cKe>>
    PROVE  KInv'
<1> USE DEF Auth
<1>0. answered \in Nat
  BY DEF Typed, EnrolleeTyped
<1>1. \A m \in net' : m.type \in Auth \cup {"cfg_req", "cfg_result"} =>
        m \in Msgs /\ m.ke \in Kes /\ (m = x \/ m \in net)
  BY Fields DEF Fewer, Typed, NetTyped
<1>2. \A k : Used(k)' => Used(k)
  BY DEF Fewer, Used
<1>3. \A m \in net' \ {x} : m.type \in Auth \cup {"cfg_req", "cfg_result"} =>
        m \in net /\ m.ke \in Kes /\ m.ke[2] \in Nat /\ m.ke[2] <= answered /\ m.ke # eKe'
  <2> SUFFICES ASSUME NEW m \in net' \ {x}, m.type \in Auth \cup {"cfg_req", "cfg_result"}
               PROVE  m \in net /\ m.ke \in Kes /\ m.ke[2] \in Nat /\ m.ke[2] <= answered /\ m.ke # eKe'
    OBVIOUS
  <2>1. m \in net /\ m.ke \in Kes /\ m.ke[2] \in Nat
    BY <1>1, KeFacts
  <2>2. m.ke[2] <= answered
    BY <2>1 DEF KInv, Past, Used
  <2> QED BY <1>0, <2>1, <2>2
<1>4. \A k \in Kes : Used(k) => k[2] \in Nat /\ k[2] <= answered /\ k # eKe'
  BY <1>0, KeFacts DEF KInv, Past
<1>5. Past'
  <2>1. \A m \in net' : m.type \in Auth => m.ke[2] <= answered'
    BY <1>0, <1>3
  <2>2. \A k \in Kes : Used(k)' => k[2] <= answered'
    BY <1>0, <1>2, <1>4
  <2> QED BY <2>1, <2>2 DEF Past
<1>6. Once'
  <2>1. \A m1, m2 \in net' : m1.type \in Auth /\ m2.type \in Auth /\ m1.ke = m2.ke => m1 = m2
    BY <1>3 DEF KInv, Once
  <2>2. \A m \in net' : m.type \in Auth => ~Used(m.ke)'
    BY <1>2, <1>3, <1>4 DEF KInv, Once
  <2> QED BY <2>1, <2>2 DEF Once
<1>7. ForKey'
  <2>1. \A r \in Rsps : Carried(r)' => r.ke # eKe'
    <3> SUFFICES ASSUME NEW r \in Rsps, Carried(r)' PROVE r.ke # eKe'
      OBVIOUS
    <3>1. r.ke \in Kes /\ Used(r.ke)
      BY DEF Fewer, Rsps, Used
    <3> QED BY <3>1, <1>4
  <2> QED BY <1>3, <2>1 DEF ForKey
<1>8. Turn'
  BY <1>3 DEF Turn
<1>9. TrueResult'
  BY <1>3 DEF KInv, TrueResult
<1> QED BY <1>5, <1>6, <1>7, <1>8, <1>9 DEF KInv

\* The controller confirms, and keeps the key.
LEMMA AuthResponseKeeps ==
    ASSUME KInv, Typed, Typed', NEW m \in net, m.type = "auth_rsp", m \notin net',
           NEW x \in Msgs, x.type = "auth_cnf", x.ke = m.ke, Fewer({x}),
           cKe' = m.ke, UNCHANGED <<answered, nonce, connector, eKe>>
    PROVE  KInv'
<1> USE DEF Auth
<1>1. \A y \in net' : y.type \in Auth \cup {"cfg_req", "cfg_result"} => y = x \/ y \in net
  BY DEF Fewer
<1>2. \A k : Used(k)' => Used(k)
  BY DEF Fewer, Used
<1>3. ~Used(m.ke)
  BY DEF KInv, Once
<1>4. Past'
  BY <1>1, <1>2 DEF KInv, Past
<1>5. Once'
  <2>1. \A m1, m2 \in net' : m1.type \in Auth /\ m2.type \in Auth /\ m1.ke = m2.ke => m1 = m2
    BY <1>1 DEF KInv, Once
  <2>2. \A y \in net' : y.type \in Auth => ~Used(y.ke)'
    BY <1>1, <1>2, <1>3 DEF KInv, Once
  <2> QED BY <2>1, <2>2 DEF Once
<1>6. ForKey'
  BY <1>1 DEF KInv, ForKey, Fewer
<1>7. Turn'
  BY <1>2, <1>3 DEF Turn
<1>8. TrueResult'
  BY <1>1, <1>3 DEF TrueResult, Used
<1> QED BY <1>4, <1>5, <1>6, <1>7, <1>8 DEF KInv

\* The enrollee draws a new key and asks for its configuration.
LEMMA AuthConfirmKeeps ==
    ASSUME KInv, Typed, Typed', NEW m \in net, m.type = "auth_cnf", m \notin net', m.ke = eKe,
           NEW x \in Msgs, x.type = "cfg_req", x.ke = m.ke, x.nonce = nonce', Fewer({x}),
           nonce' = nonce + 1, UNCHANGED <<answered, connector, eKe, cKe>>
    PROVE  KInv'
<1> USE DEF Auth
<1>1. \A y \in net' : y.type \in Auth \cup {"cfg_req", "cfg_result"} => y = x \/ y \in net
  BY DEF Fewer
<1>2. \A k : Used(k)' => Used(k) \/ k = m.ke
  BY DEF Fewer, Used
<1>3. ~Used(m.ke) /\ m.ke[2] <= answered
  BY DEF KInv, Once, Past
<1>4. nonce' # 0
  BY DEF Typed, EnrolleeTyped
<1>5. \A y \in net' : y.type \in Auth => y \in net /\ y.ke # m.ke
  BY <1>1 DEF KInv, Once
<1>6. Past'
  BY <1>2, <1>3, <1>5 DEF KInv, Past
<1>7. Once'
  <2>1. \A m1, m2 \in net' : m1.type \in Auth /\ m2.type \in Auth /\ m1.ke = m2.ke => m1 = m2
    BY <1>5 DEF KInv, Once
  <2>2. \A y \in net' : y.type \in Auth => ~Used(y.ke)'
    BY <1>2, <1>5 DEF KInv, Once
  <2> QED BY <2>1, <2>2 DEF Once
<1>8. ForKey'
  <2>1. \A y \in net' : y.type = "cfg_req" /\ y.ke = eKe' => y = x
    BY <1>1, <1>3 DEF Used
  <2>2. \A r \in Rsps : Carried(r)' => r.ke # eKe'
    BY <1>3 DEF Fewer, Used
  <2> QED BY <1>4, <2>1, <2>2 DEF ForKey
<1>9. Turn'
  BY <1>5 DEF Turn
<1>10. TrueResult'
  <2>1. cKe = m.ke \/ ~Used(cKe)
    BY DEF KInv, Turn
  <2>2. \A y \in net' : y.type = "cfg_result" => y.ke # cKe'
    BY <1>1, <1>3, <2>1 DEF Used
  <2> QED BY <2>2 DEF TrueResult
<1> QED BY <1>6, <1>7, <1>8, <1>9, <1>10 DEF KInv

\* The controller makes a response of a request.
LEMMA ConfigRequestKeeps ==
    ASSUME KInv, Typed, Typed', NEW m \in net, m.type = "cfg_req", NEW r \in Rsps,
           r.ke = m.ke, r.key = m.nonce,
           \A x \in net' : x.type \in Auth \cup {"cfg_req", "cfg_result"} => x \in net,
           \A s \in Rsps : Carried(s)' => Carried(s) \/ s = r,
           UNCHANGED <<answered, nonce, connector, eKe, cKe>>
    PROVE  KInv'
<1> USE DEF Auth
<1>1. \A k : Used(k)' => Used(k)
  BY DEF Used
<1>2. Past'
  BY <1>1 DEF KInv, Past
<1>3. Once'
  BY <1>1 DEF KInv, Once
<1>4. ForKey'
  BY DEF KInv, ForKey
<1>5. Turn'
  BY <1>1 DEF KInv, Turn
<1>6. TrueResult'
  BY DEF KInv, TrueResult
<1> QED BY <1>2, <1>3, <1>4, <1>5, <1>6 DEF KInv

\* The enrollee accepts a response and reports it.
LEMMA AcceptKeeps ==
    ASSUME KInv, Typed, Typed', NEW r \in Rsps, Carried(r), r.ke = eKe, connector' = r.key,
           NEW x, x.type = "cfg_result", x.ke = eKe, Fewer({x}),
           UNCHANGED <<answered, nonce, eKe, cKe>>
    PROVE  KInv'
<1> USE DEF Auth
<1>1. \A y \in net' : y.type \in Auth \cup {"cfg_req"} => y \in net
  BY DEF Fewer
<1>2. \A k : Used(k)' => Used(k)
  BY DEF Fewer, Used
<1>3. Past'
  BY <1>1, <1>2 DEF KInv, Past
<1>4. Once'
  BY <1>1, <1>2 DEF KInv, Once
<1>5. ForKey'
  BY <1>1 DEF KInv, ForKey, Fewer
<1>6. Turn'
  BY <1>1, <1>2 DEF KInv, Turn
<1>7. TrueResult'
  BY DEF KInv, ForKey, TrueResult
<1> QED BY <1>3, <1>4, <1>5, <1>6, <1>7 DEF KInv

\* Nothing is carried that was not, when the network gets no response and the
\* fragments kept stay as they are.
LEMMA CarriedKept ==
    ASSUME UNCHANGED <<gas, expected>>, NEW N, net' \subseteq net \cup N,
           \A x \in N : x.type \notin {"cfg_rsp", "initial_rsp", "fragment"}
    PROVE  /\ \A r \in Rsps : Carried(r)' => Carried(r)
           /\ Fewer(N)
<1>1. \A r \in Rsps : Carried(r)' => Carried(r)
  BY DEF Carried
<1> QED BY <1>1 DEF Fewer

LEMMA FailKeeps ==
    ASSUME KInv, Typed, Typed', NEW m, Fails(m),
           UNCHANGED <<gas, expected, answered, nonce, connector, cKe>>
    PROVE  KInv'
<1>1. Fewer({})
  BY CarriedKept DEF Fails, Drops, Replies
<1> QED BY <1>1, QuietKeeps DEF Fails

LEMMA KAuth ==
    ASSUME KInv, Typed, Typed', NEW m \in net,
           \/ process_chirp_notification(m) \/ StoreAuthRequest(m)
           \/ handle_auth_request(m) \/ handle_auth_response(m) \/ handle_auth_confirm(m)
    PROVE  KInv'
<1> USE DEF enrollee, proxy, ctrl
<1>m. m \in Msgs
  BY DEF NetTyped, Typed
<1>1. CASE process_chirp_notification(m)
  <2>1. PICK x : x = [type |-> "store_req", pa |-> m.pa, i |-> request']
    OBVIOUS
  <2>2. x.type = "store_req" /\ net' \subseteq net \cup {x}
    BY <1>1, <2>1 DEF process_chirp_notification, Replies
  <2>3. Fewer({x}) /\ UNCHANGED <<eKe, answered, nonce, connector, cKe>>
    BY <1>1, <2>2, CarriedKept DEF process_chirp_notification
  <2>4. Fewer({})
    BY <2>2, <2>3 DEF Fewer, Auth
  <2> QED BY <2>3, <2>4, QuietKeeps
<1>2. CASE StoreAuthRequest(m)
  <2>1. net' \subseteq net \cup {} /\ UNCHANGED <<gas, expected, eKe, answered, nonce, connector, cKe>>
    BY <1>2 DEF StoreAuthRequest, Drops, Replies
  <2> QED BY <2>1, CarriedKept, QuietKeeps
<1>3. CASE handle_auth_request(m)
  <2>1. CASE context /\ answered' = answered + 1
    <3>1. /\ eKe' = <<m.i, answered'>>
          /\ Replies(m, {[type |-> "auth_rsp", pa |-> m.pa, ke |-> eKe']})
          /\ UNCHANGED <<gas, expected, nonce, connector, cKe>>
      BY <1>3, <2>1 DEF handle_auth_request, Typed, EnrolleeTyped
    <3>2. PICK x : x = [type |-> "auth_rsp", pa |-> m.pa, ke |-> eKe']
      OBVIOUS
    <3>3. m.pa \in PAs /\ m.i \in Nat /\ answered' \in Nat \ {0}
      BY <1>3, <1>m, <2>1, Fields DEF Receive, handle_auth_request, Typed, EnrolleeTyped
    <3>4. eKe' \in Kes /\ eKe'[2] = answered'
      BY <3>1, <3>3 DEF Kes
    <3>5. x \in Msgs /\ x.type = "auth_rsp" /\ x.ke = eKe'
      BY <3>2, <3>3, <3>4 DEF Msgs
    <3>6. net' \subseteq net \cup {x}
      BY <3>1, <3>2 DEF Replies
    <3>7. Fewer({x})
      BY <3>1, <3>5, <3>6, CarriedKept
    <3> QED BY <2>1, <3>1, <3>4, <3>5, <3>7, AuthRequestKeeps
  <2>2. CASE Fails(m) /\ UNCHANGED answered
    BY <1>3, <2>2, FailKeeps DEF handle_auth_request
  <2> QED BY <1>3, <2>1, <2>2 DEF handle_auth_request
<1>4. CASE handle_auth_response(m)
  <2>0. m.type = "auth_rsp" /\ UNCHANGED <<gas, expected, eKe, answered, nonce, connector>>
    BY <1>4 DEF handle_auth_response, Receive
  <2>1. CASE m.ke[1] = request
    <3>1. PICK x : x = [type |-> "auth_cnf", pa |-> m.pa, ke |-> m.ke]
      OBVIOUS
    <3>2. x \in Msgs /\ x.type = "auth_cnf" /\ x.ke = m.ke
      BY <2>0, <3>1, <1>m, Fields DEF Msgs
    <3>3. net' = (net \ {m}) \cup {x} /\ cKe' = m.ke
      BY <1>4, <2>1, <3>1 DEF handle_auth_response, Replies
    <3>4. m \notin net' /\ net' \subseteq net \cup {x}
      BY <2>0, <3>2, <3>3
    <3>5. Fewer({x})
      BY <2>0, <3>2, <3>4, CarriedKept
    <3> QED BY <2>0, <3>2, <3>3, <3>4, <3>5, AuthResponseKeeps
  <2>2. CASE m.ke[1] # request
    <3>1. net' \subseteq net \cup {} /\ UNCHANGED cKe
      BY <1>4, <2>2 DEF handle_auth_response, Drops, Replies
    <3> QED BY <2>0, <3>1, CarriedKept, QuietKeeps
  <2> QED BY <2>1, <2>2
<1>5. CASE handle_auth_confirm(m)
  <2>0. m.type = "auth_cnf" /\ UNCHANGED <<gas, expected, answered, connector, cKe>>
    BY <1>5 DEF handle_auth_confirm, Receive
  <2>1. CASE eKe = m.ke
    <3>1. PICK x : x = [type |-> "cfg_req", pa |-> m.pa, ke |-> m.ke, nonce |-> nonce']
      OBVIOUS
    <3>2. net' = (net \ {m}) \cup {x} /\ nonce' = nonce + 1 /\ UNCHANGED eKe
      BY <1>5, <2>1, <3>1 DEF handle_auth_confirm, Replies
    <3>3. x \in Msgs /\ x.type = "cfg_req" /\ x.ke = m.ke /\ x.nonce = nonce'
      BY <2>0, <3>1, <3>2, <1>m, Fields DEF Msgs, Typed, EnrolleeTyped
    <3>4. m \notin net' /\ net' \subseteq net \cup {x}
      BY <2>0, <3>2, <3>3
    <3>5. Fewer({x})
      BY <2>0, <3>3, <3>4, CarriedKept
    <3> QED BY <2>0, <2>1, <3>2, <3>3, <3>4, <3>5, AuthConfirmKeeps
  <2>2. CASE eKe # m.ke
    BY <1>5, <2>2, FailKeeps DEF handle_auth_confirm
  <2> QED BY <2>1, <2>2
<1> QED BY <1>1, <1>2, <1>3, <1>4, <1>5

LEMMA KProxied ==
    ASSUME KInv, Typed, Typed', NEW m \in net,
           \/ handle_proxied_dpp_configuration_request(m) \/ ProxyResponse(m)
           \/ GasPrepare(m) \/ handle_gas_comeback_request(m)
           \/ handle_proxied_config_result_frame(m)
    PROVE  KInv'
<1> USE DEF enrollee, proxy, ctrl
<1>m. m \in Msgs
  BY DEF NetTyped, Typed
<1>1. CASE handle_proxied_dpp_configuration_request(m)
  <2>0. m.type = "cfg_req" /\ UNCHANGED <<gas, expected, eKe, answered, nonce, connector, cKe>>
    BY <1>1 DEF handle_proxied_dpp_configuration_request, Receive
  <2>1. CASE cKe = m.ke
    <3>1. PICK ok \in BOOLEAN, parts \in 1..Frags :
             Replies(m, {[type |-> "cfg_rsp", pa |-> m.pa, rsp |->
                            [ke |-> m.ke, key |-> m.nonce, ok |-> ok, parts |-> parts]]})
      BY <1>1, <2>1 DEF handle_proxied_dpp_configuration_request
    <3>2. PICK r : r = [ke |-> m.ke, key |-> m.nonce, ok |-> ok, parts |-> parts]
      OBVIOUS
    <3>3. r \in Rsps /\ r.ke = m.ke /\ r.key = m.nonce
      BY <2>0, <3>2, <1>m, Fields DEF Rsps
    <3>4. PICK x : x = [type |-> "cfg_rsp", pa |-> m.pa, rsp |-> r]
      OBVIOUS
    <3>5. x.type = "cfg_rsp" /\ x.rsp = r /\ net' \subseteq net \cup {x}
      BY <3>1, <3>2, <3>4 DEF Replies
    <3>6. \A s \in Rsps : Carried(s)' => Carried(s) \/ s = r
      BY <2>0, <3>5 DEF Carried
    <3>7. \A y \in net' : y.type \in Auth \cup {"cfg_req", "cfg_result"} => y \in net
      BY <3>5 DEF Auth
    <3> QED BY <2>0, <3>3, <3>6, <3>7, ConfigRequestKeeps
  <2>2. CASE cKe # m.ke
    <3>1. net' \subseteq net \cup {}
      BY <1>1, <2>2 DEF handle_proxied_dpp_configuration_request, Drops, Replies
    <3> QED BY <2>0, <3>1, CarriedKept, QuietKeeps
  <2> QED BY <2>1, <2>2
<1>2. CASE ProxyResponse(m)
  <2>0. m.type = "cfg_rsp" /\ m.rsp \in Rsps /\ m.pa \in PAs
        /\ UNCHANGED <<expected, eKe, answered, nonce, connector, cKe>>
    BY <1>2, <1>m, Fields DEF ProxyResponse, Receive
  <2>1. Carried(m.rsp)
    BY <2>0 DEF Carried
  <2>2. PICK x, y : /\ x = [type |-> "prepare", pa |-> m.pa, n |-> m.rsp.key]
                    /\ y = [type |-> "initial_rsp", pa |-> m.pa, rsp |-> m.rsp]
    OBVIOUS
  <2>3. x.type = "prepare" /\ y.type = "initial_rsp" /\ y.rsp = m.rsp
    BY <2>2
  <2>4. net' \subseteq net \cup {x, y}
    BY <1>2, <2>2 DEF ProxyResponse, Replies
  <2>5. \A p \in PAs : \A i \in 1..Len(gas'[p]) : gas'[p] = gas[p] \/ gas'[p][i].of = m.rsp
    <3>1. CASE UNCHANGED gas
      BY <3>1
    <3>2. CASE gas' = [gas EXCEPT ![m.pa] = fragment_large_frame(m.rsp)]
      <4>1. /\ Len(fragment_large_frame(m.rsp)) = m.rsp.parts
            /\ \A i \in 1..m.rsp.parts : fragment_large_frame(m.rsp)[i].of = m.rsp
        BY <2>0, FragmentsOf
      <4>2. /\ gas'[m.pa] = fragment_large_frame(m.rsp)
            /\ \A p \in PAs \ {m.pa} : gas'[p] = gas[p]
        BY <2>0, <3>2 DEF Typed, ProxyTyped
      <4> QED BY <4>1, <4>2
    <3> QED BY <1>2, <3>1, <3>2 DEF ProxyResponse
  <2>6. \A s \in Rsps : Carried(s)' => Carried(s)
    <3> SUFFICES ASSUME NEW s \in Rsps, Carried(s)' PROVE Carried(s)
      OBVIOUS
    <3>1. CASE \E p \in PAs : \E i \in 1..Len(gas'[p]) : gas'[p][i].of = s
      BY <2>1, <2>5, <3>1 DEF Carried
    <3> QED BY <2>0, <2>1, <2>3, <2>4, <3>1 DEF Carried
  <2>7. Fewer({})
    BY <2>3, <2>4, <2>6 DEF Fewer, Auth
  <2> QED BY <2>0, <2>7, QuietKeeps
<1>3. CASE GasPrepare(m)
  <2>1. PICK x : x = [type |-> "comeback_req", pa |-> m.pa, n |-> m.n, i |-> 0]
    OBVIOUS
  <2>2. /\ x.type = "comeback_req" /\ net' \subseteq net \cup {x}
        /\ UNCHANGED <<gas, expected, eKe, answered, nonce, connector, cKe>>
    BY <1>3, <2>1 DEF GasPrepare, Replies
  <2>3. Fewer({x})
    BY <2>2, CarriedKept
  <2>4. Fewer({})
    BY <2>2, <2>3 DEF Fewer, Auth
  <2> QED BY <2>2, <2>4, QuietKeeps
<1>4. CASE handle_gas_comeback_request(m)
  <2>0. m.pa \in PAs /\ UNCHANGED <<expected, eKe, answered, nonce, connector, cKe>>
    BY <1>4, <1>m, Fields DEF handle_gas_comeback_request
  <2>1. CASE gas[m.pa] = << >>
    <3>1. net' \subseteq net \cup {} /\ UNCHANGED gas
      BY <1>4, <2>1 DEF handle_gas_comeback_request, Drops, Replies
    <3> QED BY <2>0, <3>1, CarriedKept, QuietKeeps
  <2>2. CASE gas[m.pa] # << >>
    <3>1. PICK x : x = [type |-> "fragment", pa |-> m.pa, frag |-> Head(gas[m.pa])]
      OBVIOUS
    <3>2. /\ x.type = "fragment" /\ x.frag = Head(gas[m.pa]) /\ net' \subseteq net \cup {x}
          /\ gas' = [gas EXCEPT ![m.pa] = Tail(gas[m.pa])]
      BY <1>4, <2>2, <3>1 DEF handle_gas_comeback_request, Replies
    <3>3. gas[m.pa] \in Seq(Fragments)
      BY <2>0 DEF Typed, ProxyTyped
    <3>t. PICK t : t = Tail(gas[m.pa])
      OBVIOUS
    <3>4. /\ Len(gas[m.pa]) \in Nat \ {0} /\ Head(gas[m.pa]) = gas[m.pa][1]
          /\ Len(t) = Len(gas[m.pa]) - 1
          /\ \A i \in 1..Len(t) : t[i] = gas[m.pa][i + 1]
      BY <2>2, <3>3, <3>t, EmptySeq, HeadTailProperties, LenProperties
    <3>5. /\ gas'[m.pa] = t
          /\ \A p \in PAs \ {m.pa} : gas'[p] = gas[p]
      BY <2>0, <3>2, <3>t DEF Typed, ProxyTyped
    <3>6. \A p \in PAs : \A i \in 1..Len(gas'[p]) :
             \E j \in 1..Len(gas[p]) : gas'[p][i] = gas[p][j]
      <4> SUFFICES ASSUME NEW p \in PAs, NEW i \in 1..Len(gas'[p])
                   PROVE  \E j \in 1..Len(gas[p]) : gas'[p][i] = gas[p][j]
        OBVIOUS
      <4>1. CASE p = m.pa
        <5>0. i \in 1..Len(t)
          BY <3>5, <4>1
        <5>1. i + 1 \in 1..Len(gas[p]) /\ gas'[p][i] = gas[p][i + 1]
          BY <3>4, <3>5, <4>1, <5>0
        <5> QED BY <5>1
      <4>2. CASE p # m.pa
        BY <3>5, <4>2
      <4> QED BY <4>1, <4>2
    <3>7. 1 \in 1..Len(gas[m.pa]) /\ x.frag = gas[m.pa][1]
      BY <3>2, <3>4
    <3>8. \A s \in Rsps : Carried(s)' => Carried(s)
      <4> SUFFICES ASSUME NEW s \in Rsps, Carried(s)' PROVE Carried(s)
        OBVIOUS
      <4>1. CASE \E p \in PAs : \E i \in 1..Len(gas'[p]) : gas'[p][i].of = s
        BY <3>6, <4>1 DEF Carried
      <4>2. CASE x.frag.of = s
        BY <2>0, <3>7, <4>2 DEF Carried
      <4> QED BY <2>0, <3>2, <4>1, <4>2 DEF Carried
    <3>9. Fewer({})
      BY <3>2, <3>8 DEF Fewer, Auth
    <3> QED BY <2>0, <3>9, QuietKeeps
  <2> QED BY <2>1, <2>2
<1>5. CASE handle_proxied_config_result_frame(m)
  <2>1. net' \subseteq net \cup {} /\ UNCHANGED <<gas, expected, eKe, answered, nonce, connector, cKe>>
    BY <1>5 DEF handle_proxied_config_result_frame, Drops, Replies
  <2> QED BY <2>1, CarriedKept, QuietKeeps
<1> QED BY <1>1, <1>2, <1>3, <1>4, <1>5

LEMMA KGas ==
    ASSUME KInv, Typed, Typed', NEW m \in net,
           handle_gas_initial_response(m) \/ handle_gas_comeback_response(m)
    PROVE  KInv'
<1> USE DEF enrollee, proxy, ctrl
<1>m. m \in Msgs
  BY DEF NetTyped, Typed
<1>a. ASSUME NEW r \in Rsps, Carried(r), r.ke = eKe, connector' = r.key,
             Replies(m, {[type |-> "cfg_result", pa |-> m.pa, ke |-> eKe, nonce |-> nonce]}),
             UNCHANGED <<gas, answered, nonce, eKe, cKe>>,
             \A s \in Rsps : (\E p \in PAs : \E i \in 1..Len(expected'[p]) : expected'[p][i] = s) => Carried(s)
      PROVE  KInv'
  <2>1. PICK x : x = [type |-> "cfg_result", pa |-> m.pa, ke |-> eKe, nonce |-> nonce]
    OBVIOUS
  <2>2. x.type = "cfg_result" /\ x.ke = eKe /\ net' \subseteq net \cup {x}
    BY <1>a, <2>1 DEF Replies
  <2>3. \A s \in Rsps : Carried(s)' => Carried(s)
    BY <1>a, <2>2 DEF Carried
  <2>4. Fewer({x})
    BY <2>2, <2>3 DEF Fewer
  <2> QED BY <1>a, <2>2, <2>4, AcceptKeeps
<1>1. CASE handle_gas_initial_response(m)
  <2>0. /\ m.type = "initial_rsp" /\ m.rsp \in Rsps /\ handle_config_response(m, <<m.rsp>>)
        /\ UNCHANGED <<gas, expected, answered, nonce, cKe>>
    BY <1>1, <1>m, Fields DEF handle_gas_initial_response, Receive
  <2>1. CASE Accepted(<<m.rsp>>)
    <3>1. /\ m.rsp.ke = eKe /\ connector' = m.rsp.key /\ UNCHANGED eKe
          /\ Replies(m, {[type |-> "cfg_result", pa |-> m.pa, ke |-> eKe, nonce |-> nonce]})
      BY <2>0, <2>1 DEF handle_config_response, Accepted
    <3>2. Carried(m.rsp)
      BY <2>0 DEF Carried
    <3>3. \A s \in Rsps : (\E p \in PAs : \E i \in 1..Len(expected'[p]) : expected'[p][i] = s) => Carried(s)
      BY <2>0 DEF Carried
    <3> QED BY <2>0, <3>1, <3>2, <3>3, <1>a
  <2>2. CASE ~Accepted(<<m.rsp>>)
    BY <2>0, <2>2, FailKeeps DEF handle_config_response
  <2> QED BY <2>1, <2>2
<1>2. CASE handle_gas_comeback_response(m)
  <2>0. /\ m.type = "fragment" /\ m.pa \in PAs /\ m.frag.of \in Rsps
        /\ UNCHANGED <<gas, answered, nonce, cKe>>
    BY <1>2, <1>m, Fields DEF handle_gas_comeback_response, Receive, Fragments
  <2>1. Carried(m.frag.of)
    BY <2>0 DEF Carried
  <2>2. expected \in [PAs -> Seq(Rsps)] /\ expected[m.pa] \in Seq(Rsps)
    BY <2>0 DEF Typed, EnrolleeTyped
  <2>3. PICK body : body = Append(expected[m.pa], m.frag.of)
    OBVIOUS
  <2>4. /\ body \in Seq(Rsps) /\ Len(body) = Len(expected[m.pa]) + 1 /\ Len(body) \in Nat
        /\ \A i \in 1..Len(body) : i <= Len(expected[m.pa]) => body[i] = expected[m.pa][i]
        /\ body[Len(body)] = m.frag.of
    BY <2>0, <2>2, <2>3, AppendProperties, LenProperties
  <2>5. \A i \in 1..Len(body) : body[i] \in Rsps /\ Carried(body[i])
    <3> SUFFICES ASSUME NEW i \in 1..Len(body) PROVE body[i] \in Rsps /\ Carried(body[i])
      OBVIOUS
    <3>1. CASE i = Len(body)
      BY <2>0, <2>1, <2>4, <3>1
    <3>2. CASE i # Len(body)
      <4>1. i \in 1..Len(expected[m.pa])
        BY <2>4, <3>2
      <4>2. body[i] = expected[m.pa][i] /\ expected[m.pa][i] \in Rsps
        BY <2>2, <2>4, <4>1, ElementOfSeq
      <4> QED BY <2>0, <4>1, <4>2 DEF Carried
    <3> QED BY <3>1, <3>2
  <2>6. ASSUME NEW e \in {body, << >>}, expected' = [expected EXCEPT ![m.pa] = e]
        PROVE  \A s \in Rsps : (\E p \in PAs : \E i \in 1..Len(expected'[p]) : expected'[p][i] = s) => Carried(s)
    <3>1. expected'[m.pa] = e /\ \A p \in PAs \ {m.pa} : expected'[p] = expected[p]
      BY <2>0, <2>2, <2>6
    <3>2. \A i \in 1..Len(e) : Carried(e[i])
      BY <2>5
    <3> QED BY <3>1, <3>2 DEF Carried
  <2>7. CASE Fails(m) /\ UNCHANGED <<connector, expected>>
    BY <2>0, <2>7, FailKeeps
  <2>8. CASE /\ m.frag.more
             /\ expected' = [expected EXCEPT ![m.pa] = body]
             /\ Replies(m, {[type |-> "comeback_req", pa |-> m.pa, n |-> m.frag.of.key, i |-> Len(body)]})
             /\ UNCHANGED <<context, eKe, connector>>
    <3>1. PICK x : x = [type |-> "comeback_req", pa |-> m.pa, n |-> m.frag.of.key, i |-> Len(body)]
      OBVIOUS
    <3>2. x.type = "comeback_req" /\ net' \subseteq net \cup {x}
      BY <2>8, <3>1 DEF Replies
    <3>3. \A s \in Rsps : Carried(s)' => Carried(s)
      BY <2>0, <2>6, <2>8, <3>2 DEF Carried
    <3>4. Fewer({})
      BY <3>2, <3>3 DEF Fewer, Auth
    <3> QED BY <2>0, <2>8, <3>4, QuietKeeps
  <2>9. CASE /\ ~m.frag.more
             /\ expected' = [expected EXCEPT ![m.pa] = IF Accepted(body) THEN << >> ELSE body]
             /\ handle_config_response(m, body)
    <3>1. CASE Accepted(body)
      <4>1. /\ body[1].ke = eKe /\ connector' = body[1].key /\ UNCHANGED eKe
            /\ Replies(m, {[type |-> "cfg_result", pa |-> m.pa, ke |-> eKe, nonce |-> nonce]})
        BY <2>9, <3>1 DEF handle_config_response, Accepted
      <4>2. body[1] \in Rsps /\ Carried(body[1])
        BY <2>4, <2>5, <2>2, LenProperties
      <4>3. expected' = [expected EXCEPT ![m.pa] = << >>]
        BY <2>9, <3>1
      <4> QED BY <2>0, <2>6, <4>1, <4>2, <4>3, <1>a
    <3>2. CASE ~Accepted(body)
      <4>1. Fails(m) /\ UNCHANGED connector /\ expected' = [expected EXCEPT ![m.pa] = body]
        BY <2>9, <3>2 DEF handle_config_response
      <4>2. net' \subseteq net /\ eKe' = None
        BY <4>1 DEF Fails, Drops, Replies
      <4>3. \A s \in Rsps : Carried(s)' => Carried(s)
        BY <2>0, <2>6, <4>1, <4>2 DEF Carried
      <4>4. Fewer({})
        BY <4>2, <4>3 DEF Fewer
      <4> QED BY <2>0, <4>1, <4>2, <4>4, QuietKeeps
    <3> QED BY <3>1, <3>2
  <2> QED BY <1>2, <2>3, <2>7, <2>8, <2>9 DEF handle_gas_comeback_response
<1> QED BY <1>1, <1>2

LEMMA KKept == KInv /\ Typed /\ Typed' /\ [Next]_vars => KInv'
<1> SUFFICES ASSUME KInv, Typed, Typed', [Next]_vars PROVE KInv'
  OBVIOUS
<1>1. CASE \E p \in PAs : Announce(p)
  <2> PICK p \in PAs : Announce(p)
    BY <1>1
  <2>1. PICK x, y : /\ x = [type |-> "chirp", pa |-> p, n |-> chirps]
                    /\ y = [type |-> "auth_req", pa |-> p, i |-> cache[p], n |-> chirps]
    OBVIOUS
  <2>2. /\ x.type = "chirp" /\ y.type = "auth_req" /\ net' \subseteq net \cup {x, y}
        /\ UNCHANGED <<gas, expected, eKe, answered, nonce, connector, cKe>>
    BY <2>1 DEF Announce, enrollee, proxy, ctrl
  <2>3. Fewer({x, y})
    BY <2>2, CarriedKept
  <2>4. Fewer({})
    BY <2>2, <2>3 DEF Fewer, Auth
  <2> QED BY <2>2, <2>4, QuietKeeps
<1>2. CASE \E m \in net : Lose(m)
  <2>1. net' \subseteq net \cup {} /\ UNCHANGED <<gas, expected, eKe, answered, nonce, connector, cKe>>
    BY <1>2 DEF Lose, Drops, Replies, enrollee, proxy, ctrl
  <2> QED BY <2>1, CarriedKept, QuietKeeps
<1>3. CASE \E m \in net : Handle(m)
  BY <1>3, KAuth, KProxied, KGas DEF Handle
<1>4. CASE UNCHANGED vars
  <2>1. net' \subseteq net \cup {} /\ UNCHANGED <<gas, expected, eKe, answered, nonce, connector, cKe>>
    BY <1>4 DEF vars, enrollee, proxy, ctrl
  <2> QED BY <2>1, CarriedKept, QuietKeeps
<1> QED BY <1>1, <1>2, <1>3, <1>4 DEF Next

\* handle_proxied_config_result_frame notes the enrollee as onboarded only when
\* the enrollee holds a connector that is signed for its network access key:
\* for any number of proxy agents, requests, late answers and losses.
THEOREM OnboardsWithItsKey == Spec => OnboardedWithKey
<1> DEFINE Step == complete' /\ ~complete => connector = nonce /\ connector # 0
<1>1. KInv /\ Typed /\ [Next]_vars => [Step]_vars
  <2> SUFFICES ASSUME KInv, Typed, Next, complete', ~complete
               PROVE  connector = nonce /\ connector # 0
    OBVIOUS
  <2>1. PICK m \in net : Handle(m)
    BY DEF Next, Announce, Lose, ctrl
  <2>2. handle_proxied_config_result_frame(m)
    BY <2>1 DEF Handle, process_chirp_notification, StoreAuthRequest, handle_auth_request,
         handle_auth_response, handle_auth_confirm, handle_proxied_dpp_configuration_request,
         ProxyResponse, GasPrepare, handle_gas_comeback_request, handle_gas_initial_response,
         handle_gas_comeback_response, ctrl
  <2> QED BY <2>2 DEF handle_proxied_config_result_frame, Receive, KInv, TrueResult
<1>2. Init /\ [][Next]_vars => [](KInv /\ Typed)
  BY TypedStart, TypedKept, KStart, KKept, PTL
<1> QED BY <1>1, <1>2, PTL DEF Spec, OnboardedWithKey
=============================================================================
