----------------------------- MODULE DppOnboard -----------------------------
(***************************************************************************)
(* Onboarding of an enrollee agent over Wi-Fi with EasyConnect (DPP).  The *)
(* enrollee announces itself until an authentication request arrives; the  *)
(* proxy agents that hear it pass the controller's messages on, and the    *)
(* controller's configuration response in fragments when it is large.      *)
(*                                                                         *)
(* A key is named by what it is derived from: k_e by the number of the     *)
(* controller's request (its I-nonce and protocol key) and of the          *)
(* enrollee's response (its R-nonce and protocol key), the network access  *)
(* key by the number of the E-nonce it is drawn with.  Unwrapping succeeds *)
(* with the key it was wrapped with and with no other.  Messages may be    *)
(* delayed, overtake each other and get lost; a proxy agent that only      *)
(* passes a message on is part of its delay.                               *)
(***************************************************************************)
EXTENDS Naturals, Sequences

CONSTANTS
    PAs,         \* the proxy agents that can hear the enrollee
    Frags,       \* the most fragments a configuration response needs; with 1
                 \* it fits a frame
    MaxChirps,   \* bound: announcements heard
    MaxLost      \* bound: messages lost

ASSUME DppAssumption ==
    Frags \in Nat \ {0} /\ MaxChirps \in Nat /\ MaxLost \in Nat

None == <<0, 0>>                 \* no k_e

VARIABLES
    \* ec_enrollee_t
    announcing,  \* ~m_received_auth_frame: the announcing thread runs
    context,     \* m_c_ctx holds keys (teardown_connection has not freed it)
    eKe,         \* k_e
    answered,    \* authentication responses created
    nonce,       \* e_nonce, and the network access key drawn with it
    connector,   \* the network access key the connector was signed for; 0: none
    expected,    \* m_gas_fragments: fragments received from each proxy agent
    \* ec_pa_configurator_t, for each proxy agent
    cache,       \* m_chirp_hash_frame_map: the stored request; 0: none
    gas,         \* m_gas_frames_to_be_sent
    \* ec_ctrl_configurator_t
    request,     \* the request whose protocol key and I-nonce it has
    cKe,         \* k_e
    cNonce,      \* e_nonce, and enrollee_net_access_key
    complete,    \* is_easyconnect_dpp_complete
    \*
    net, chirps, lost, \* messages on their way; bounds
    refused            \* history: the controller refused to onboard more

enrollee == <<announcing, context, eKe, answered, nonce, connector, expected>>
proxy    == <<cache, gas>>
ctrl     == <<request, cKe, cNonce, complete, refused>>
vars     == <<enrollee, proxy, ctrl, net, chirps, lost>>

Init ==
    /\ announcing = TRUE /\ context = TRUE
    /\ eKe = None /\ answered = 0 /\ nonce = 0 /\ connector = 0
    /\ expected = [p \in PAs |-> << >>]
    /\ cache = [p \in PAs |-> 0] /\ gas = [p \in PAs |-> << >>]
    /\ request = 0 /\ cKe = None /\ cNonce = 0 /\ complete = FALSE
    /\ net = {} /\ chirps = 0 /\ lost = 0 /\ refused = FALSE

Receive(m, t) == m \in net /\ m.type = t
Replies(m, ms) == net' = (net \ {m}) \cup ms
Drops(m) == Replies(m, {})

-----------------------------------------------------------------------------
(* Announcement and authentication.                                        *)

\* send_presence_announcement_frames, heard by p (handle_presence_announcement)
Announce(p) ==
    /\ announcing
    /\ chirps < MaxChirps
    /\ chirps' = chirps + 1
    /\ net' = net \cup
        {IF cache[p] = 0 THEN [type |-> "chirp", pa |-> p, n |-> chirps]
         ELSE [type |-> "auth_req", pa |-> p, i |-> cache[p], n |-> chirps]}
    /\ UNCHANGED <<enrollee, proxy, ctrl, lost>>

\* Every notification makes a new request, whose keys replace the last one's.
process_chirp_notification(m) ==
    /\ Receive(m, "chirp")
    /\ request' = request + 1
    /\ Replies(m, {[type |-> "store_req", pa |-> m.pa, i |-> request']})
    /\ UNCHANGED <<enrollee, proxy, cKe, cNonce, complete, refused, chirps, lost>>

\* The proxy agent keeps the request until it hears the enrollee again.
StoreAuthRequest(m) ==
    /\ Receive(m, "store_req")
    /\ cache' = [cache EXCEPT ![m.pa] = m.i]
    /\ Drops(m)
    /\ UNCHANGED <<enrollee, gas, ctrl, chirps, lost>>

\* ec_manager_t: a handler of the enrollee that fails ends in
\* teardown_connection, which frees the context, bootstrapping keys included.
Fails(m) ==
    /\ context' = FALSE /\ eKe' = None
    /\ Drops(m)

\* The announcements stop for good, before the request is looked at.
handle_auth_request(m) ==
    /\ Receive(m, "auth_req")
    /\ announcing' = FALSE
    /\ \/ /\ context
          /\ answered' = answered + 1
          /\ eKe' = <<m.i, answered'>>
          /\ Replies(m, {[type |-> "auth_rsp", pa |-> m.pa, ke |-> eKe']})
          /\ UNCHANGED context
       \/ ~context /\ Fails(m) /\ UNCHANGED answered
    /\ UNCHANGED <<nonce, connector, expected, proxy, ctrl, chirps, lost>>

\* k_2 is computed with the protocol key of the last request; an answer to
\* an earlier one is dropped without a reply.
handle_auth_response(m) ==
    /\ Receive(m, "auth_rsp")
    /\ \/ /\ m.ke[1] = request
          /\ cKe' = m.ke
          /\ Replies(m, {[type |-> "auth_cnf", pa |-> m.pa, ke |-> m.ke]})
       \/ m.ke[1] # request /\ Drops(m) /\ UNCHANGED cKe
    /\ UNCHANGED <<enrollee, proxy, request, cNonce, complete, refused, chirps, lost>>

\* create_config_request draws a new E-nonce and a new network access key.
handle_auth_confirm(m) ==
    /\ Receive(m, "auth_cnf")
    /\ \/ /\ eKe = m.ke
          /\ nonce' = nonce + 1
          /\ Replies(m, {[type |-> "cfg_req", pa |-> m.pa, ke |-> m.ke, nonce |-> nonce']})
          /\ UNCHANGED <<context, eKe>>
       \/ eKe # m.ke /\ Fails(m) /\ UNCHANGED nonce
    /\ UNCHANGED <<announcing, answered, connector, expected, proxy, ctrl, chirps, lost>>

-----------------------------------------------------------------------------
(* Configuration.                                                          *)

\* The connector is signed for the key that came with the request; when the
\* controller cannot onboard more agents it answers with a failure.
handle_proxied_dpp_configuration_request(m) ==
    /\ Receive(m, "cfg_req")
    /\ \/ /\ cKe = m.ke
          /\ cNonce' = m.nonce
          /\ \E ok \in BOOLEAN, parts \in 1..Frags :
                /\ ~ok => parts = 1
                /\ refused' = (refused \/ ~ok)
                /\ Replies(m, {[type |-> "cfg_rsp", pa |-> m.pa, rsp |->
                                    [ke |-> m.ke, key |-> m.nonce, ok |-> ok, parts |-> parts]]})
       \/ cKe # m.ke /\ Drops(m) /\ UNCHANGED <<cNonce, refused>>
    /\ UNCHANGED <<enrollee, proxy, request, cKe, complete, chirps, lost>>

fragment_large_frame(r) == [i \in 1..r.parts |-> [of |-> r, i |-> i - 1, more |-> i < r.parts]]

ResponseQueued(m) ==          \* mutant: the fragments are added to those not sent
    /\ Receive(m, "cfg_rsp")
    /\ gas' = [gas EXCEPT ![m.pa] = @ \o fragment_large_frame(m.rsp)]
    /\ Replies(m, {[type |-> "prepare", pa |-> m.pa, n |-> m.rsp.key]})
    /\ UNCHANGED <<enrollee, cache, ctrl, chirps, lost>>

\* process_proxy_encap_dpp_msg: what is larger than a frame is cut into
\* fragments, which replace those not sent yet.
ProxyResponse(m) ==
    /\ Receive(m, "cfg_rsp")
    /\ \/ /\ m.rsp.parts > 1
          /\ gas' = [gas EXCEPT ![m.pa] = fragment_large_frame(m.rsp)]
          /\ Replies(m, {[type |-> "prepare", pa |-> m.pa, n |-> m.rsp.key]})
       \/ /\ m.rsp.parts = 1
          /\ Replies(m, {[type |-> "initial_rsp", pa |-> m.pa, rsp |-> m.rsp]})
          /\ UNCHANGED gas
    /\ UNCHANGED <<enrollee, cache, ctrl, chirps, lost>>

\* handle_gas_initial_response, when it announces fragments
GasPrepare(m) ==
    /\ Receive(m, "prepare")
    /\ Replies(m, {[type |-> "comeback_req", pa |-> m.pa, n |-> m.n, i |-> 0]})
    /\ UNCHANGED <<enrollee, proxy, ctrl, chirps, lost>>

ComebackKeepsFirst(m) ==          \* mutant: the fragment is not erased
    /\ Receive(m, "comeback_req")
    /\ \/ /\ gas[m.pa] # << >>
          /\ gas' = gas
          /\ Replies(m, {[type |-> "fragment", pa |-> m.pa, frag |-> Head(gas[m.pa])]})
       \/ gas[m.pa] = << >> /\ Drops(m) /\ UNCHANGED gas
    /\ UNCHANGED <<enrollee, cache, ctrl, chirps, lost>>

\* The first fragment left is sent and forgotten.
handle_gas_comeback_request(m) ==
    /\ Receive(m, "comeback_req")
    /\ \/ /\ gas[m.pa] # << >>
          /\ gas' = [gas EXCEPT ![m.pa] = Tail(@)]
          /\ Replies(m, {[type |-> "fragment", pa |-> m.pa, frag |-> Head(gas[m.pa])]})
       \/ gas[m.pa] = << >> /\ Drops(m) /\ UNCHANGED gas
    /\ UNCHANGED <<enrollee, cache, ctrl, chirps, lost>>

\* handle_config_response: the parts are of one response, it is a good one,
\* and k_e unwraps it.  Its E-nonce is not compared.
Accepted(body) ==
    LET r == body[1] IN
    /\ body = [i \in 1..r.parts |-> r]
    /\ r.ok
    /\ r.ke = eKe

handle_config_response(m, body) ==
    \/ /\ Accepted(body)
       /\ connector' = body[1].key
       /\ Replies(m, {[type |-> "cfg_result", pa |-> m.pa, ke |-> eKe, nonce |-> nonce]})
       /\ UNCHANGED <<context, eKe>>
    \/ ~Accepted(body) /\ Fails(m) /\ UNCHANGED connector

handle_gas_initial_response(m) ==
    /\ Receive(m, "initial_rsp")
    /\ handle_config_response(m, <<m.rsp>>)
    /\ UNCHANGED <<announcing, answered, nonce, expected, proxy, ctrl, chirps, lost>>

\* A fragment out of turn is an error; the next one is asked for; with the
\* last one the response is handled, and forgotten if that succeeds.
handle_gas_comeback_response(m) ==
    LET body == Append(expected[m.pa], m.frag.of) IN
    /\ Receive(m, "fragment")
    /\ \/ /\ m.frag.i # Len(expected[m.pa])
          /\ Fails(m) /\ UNCHANGED <<connector, expected>>
       \/ /\ m.frag.i = Len(expected[m.pa]) /\ m.frag.more
          /\ expected' = [expected EXCEPT ![m.pa] = body]
          /\ Replies(m, {[type |-> "comeback_req", pa |-> m.pa, n |-> m.frag.of.key, i |-> Len(body)]})
          /\ UNCHANGED <<context, eKe, connector>>
       \/ /\ m.frag.i = Len(expected[m.pa]) /\ ~m.frag.more
          /\ expected' = [expected EXCEPT ![m.pa] = IF Accepted(body) THEN << >> ELSE body]
          /\ handle_config_response(m, body)
    /\ UNCHANGED <<announcing, answered, nonce, proxy, ctrl, chirps, lost>>

ResultUnchecked(m) ==          \* mutant: any result completes the onboarding
    /\ Receive(m, "cfg_result")
    /\ complete' = TRUE
    /\ Drops(m)
    /\ UNCHANGED <<enrollee, proxy, request, cKe, cNonce, refused, chirps, lost>>

\* Unwrapped with k_e, and compared with the E-nonce.
handle_proxied_config_result_frame(m) ==
    /\ Receive(m, "cfg_result")
    /\ complete' = (complete \/ (cKe = m.ke /\ cNonce = m.nonce))
    /\ Drops(m)
    /\ UNCHANGED <<enrollee, proxy, request, cKe, cNonce, refused, chirps, lost>>

Lose(m) ==
    /\ m \in net /\ lost < MaxLost
    /\ lost' = lost + 1
    /\ Drops(m)
    /\ UNCHANGED <<enrollee, proxy, ctrl, chirps>>

-----------------------------------------------------------------------------
Handle(m) ==
    \/ process_chirp_notification(m) \/ StoreAuthRequest(m)
    \/ handle_auth_request(m) \/ handle_auth_response(m) \/ handle_auth_confirm(m)
    \/ handle_proxied_dpp_configuration_request(m) \/ ProxyResponse(m)
    \/ GasPrepare(m) \/ handle_gas_comeback_request(m)
    \/ handle_gas_initial_response(m) \/ handle_gas_comeback_response(m)
    \/ handle_proxied_config_result_frame(m)

Next ==
    \/ \E p \in PAs : Announce(p)
    \/ \E m \in net : Handle(m) \/ Lose(m)

\* A message that is not lost arrives; the announcing thread goes on, and
\* every proxy agent hears it.
Fairness ==
    /\ \A p \in PAs : WF_vars(Announce(p))
    /\ WF_vars(\E m \in net : Handle(m))

Spec == Init /\ [][Next]_vars /\ Fairness

-----------------------------------------------------------------------------
TypeOK ==
    /\ announcing \in BOOLEAN /\ context \in BOOLEAN /\ complete \in BOOLEAN /\ refused \in BOOLEAN
    /\ eKe \in Nat \X Nat /\ cKe \in Nat \X Nat
    /\ {answered, nonce, connector, request, cNonce} \subseteq Nat
    /\ \A p \in PAs : Len(expected[p]) <= Frags /\ Len(gas[p]) <= Frags /\ cache[p] <= request
    /\ \A m \in net : m.pa \in PAs
    /\ chirps \in 0..MaxChirps /\ lost \in 0..MaxLost

\* When the controller notes that the enrollee is onboarded
\* (handle_proxied_config_result_frame), the enrollee has a connector, signed
\* for the network access key it holds: whichever requests of earlier
\* announcements, on whichever proxy agents, are still being answered.
OnboardedWithKey == [][complete' /\ ~complete => connector = nonce /\ connector # 0]_vars

\* The controller made one request and the enrollee answered it once, nothing
\* got lost, and the controller can onboard more agents.
Undisturbed == request <= 1 /\ answered <= 1 /\ lost = 0 /\ ~refused
\* Bound: there are no announcements left that would bring the request.
OutOfChirps == chirps = MaxChirps /\ answered = 0

\* An enrollee that announces itself is onboarded, unless a second request
\* or a loss comes between: the stored request reaches it, it proves its
\* keys, and the fragments are asked for and sent up to the last one.
Onboards == <>(complete \/ ~Undisturbed \/ OutOfChirps)
=============================================================================
