------------------------------ MODULE Eapol1905 ------------------------------
(***************************************************************************)
(* The 1905 layer security of prov/easyconnect/ec_1905_encrypt_layer.cpp:  *)
(* an agent sends a DPP peer discovery request to the controller, both     *)
(* derive the PMK from the other's connector, and the controller runs a    *)
(* 4-way EAPOL handshake that gives both the PTK and the agent the GTK.    *)
(* Either side may later ask for a new PTK, the controller for a new GTK.  *)
(*                                                                         *)
(* A key is what it is computed from: a PTK is the set of its two nonces   *)
(* (compute_ptk orders them, and the PMK and the addresses are those of    *)
(* the link), a GTK the number of its nonce.  0 and {} are the zeroed      *)
(* buffers.  Validity of connectors and signatures is not modelled: all    *)
(* devices hold connectors of the same configurator.                       *)
(***************************************************************************)
EXTENDS Naturals, Sequences, SequencesExt

CONSTANTS
  Ctrl, Agents,
  GtkIds,       \* what the uninitialised m_gtk_id of the controller may hold
  Rekeys,       \* which rekey operations are called: "ptk", "gtk"
  MaxStarts,    \* bound on the discovery requests of an agent
  MaxRestarts,  \* bound on the restarts of an agent
  MaxRekeys,    \* bound on the rekey operations
  MaxFaults     \* bound on lost, repeated and overtaken messages

ASSUME EapolAssumption ==
  /\ Ctrl \notin Agents
  /\ GtkIds \subseteq 0 .. 255 /\ GtkIds # {}
  /\ Rekeys \subseteq {"ptk", "gtk"}
  /\ {MaxStarts, MaxRestarts, MaxRekeys, MaxFaults} \subseteq Nat

Nodes == {Ctrl} \cup Agents
Links == ({Ctrl} \X Agents) \cup (Agents \X {Ctrl})

VARIABLES
  ctx,      \* ctx[<<n, p>>]: what n keeps for p in m_1905_mac_key_mac
  gtk, gtkId,  \* m_gtk and m_gtk_id
  trans,    \* m_transaction_id
  net,      \* net[<<n, p>>]: messages from n to p
  inst,     \* inst[<<n, p>>]: the PTKs n has installed for p, in order
  instGtk,  \* instGtk[a]: the GTKs agent a has installed, in order
  rekeyed,  \* rekeyed[<<n, p>>]: how many PTKs n has installed for p once the
            \* PTK it has last asked for is installed; 0: never asked
  fresh,    \* the number of the last nonce
  starts, restarts, rekeys, faults

keys == <<ctx, gtk, gtkId, trans, inst, instGtk, rekeyed, fresh>>
bounds == <<starts, restarts, rekeys, faults>>
vars == <<keys, net, bounds>>

\* The zeroed context of an unknown peer, and the one made when the PMK is
\* derived (`known').  idx is sent_eapol_idx, ctr curr_replay_counter.
NoCtx == [known |-> FALSE, an |-> 0, sn |-> 0, ptk |-> {}, kck |-> {},
          ctr |-> 0, idx |-> 0]
NewCtx == [NoCtx EXCEPT !.known = TRUE]

Init ==
  /\ ctx = [l \in Links |-> NoCtx]
  /\ gtk = [n \in Nodes |-> 0]
  /\ gtkId \in [Nodes -> GtkIds]
  /\ \A a \in Agents : gtkId[a] = gtkId[Ctrl]
  /\ trans = [n \in Nodes |-> 0]
  /\ net = [l \in Links |-> <<>>]
  /\ inst = [l \in Links |-> <<>>]
  /\ instGtk = [a \in Agents |-> <<>>]
  /\ rekeyed = [l \in Links |-> 0]
  /\ fresh = 0 /\ starts = 0 /\ restarts = 0 /\ rekeys = 0 /\ faults = 0

------------------------------------------------------------------------------
\* Frames and keys.

Disc(type, id) == [type |-> type, trans |-> id]

\* An EAPOL key frame.  mic is {} when the key_mic bit is clear, else the set
\* of the KCK it was made with; key is the wrapped GTK and its id.
Frame(type, c, nonce, mic, key, id) ==
  [type |-> type, ctr |-> c, nonce |-> nonce, mic |-> mic, key |-> key,
   id |-> id]

\* The nonces are ordered before they are hashed, so that both sides compute
\* one key.
compute_ptk(c) == {c.an, c.sn}

\* Mutant: the KCK is not taken into account.
verify_micAlways(c, m) == m.mic # {}

verify_mic(c, m) == m.mic = {c.kck}

\* Mutant: the two bits of the id wrap to 0.
NextGtkIdZero(id) == (id + 1) % 4

\* compute_gtk: a new key and the next id, kept in 1 .. 3.  m_gtk_id is an
\* unsigned byte.
NextGtkId(id) == LET i == (id + 1) % 256 IN IF i > 3 THEN 1 ELSE i

\* The message taken off the link from p to n, and what n then sends to p.
Rest(p, n, i, keep) == IF keep THEN net[<<p, n>>] ELSE RemoveAt(net[<<p, n>>], i)
Answer(n, p, rest, out) ==
  net' = [net EXCEPT ![<<p, n>>] = rest, ![<<n, p>>] = @ \o out]

------------------------------------------------------------------------------
\* Peer discovery.

\* start_secure_1905_layer, on an autoconfiguration response while onboarding,
\* on the WSC M2, or after the DPP configuration result over Ethernet.
start_secure_1905_layer(a) ==
  /\ starts < MaxStarts
  /\ starts' = starts + 1
  /\ net' = [net EXCEPT ![<<a, Ctrl>>] = Append(@, Disc("req", trans[a]))]
  /\ UNCHANGED <<keys, restarts, rekeys, faults>>

\* The frames built from a context c.  Frame 3 and group frame 1 carry the
\* wrapped GTK g with the two bits of its id; group frame 2 is built with
\* key_type 1, as a pairwise frame.
build_pw_eapol_frame_1(c) == Frame("pw", c.ctr, c.an, {}, 0, 0)
build_pw_eapol_frame_2(c) == Frame("pw", c.ctr, c.sn, {c.kck}, 0, 0)
build_pw_eapol_frame_3(c, g, i) == Frame("pw", c.ctr, c.an, {c.kck}, g, i % 4)
build_pw_eapol_frame_4(c) == Frame("pw", c.ctr, 0, {c.kck}, 0, 0)
build_group_eapol_frame_1(c, g, i) == Frame("group", c.ctr, 0, {c.kck}, g, i % 4)
build_group_eapol_frame_2(c) == Frame("pw", c.ctr, 0, {c.kck}, 0, 0)

\* begin_1905_4way_handshake, with its counter and its new ANonce, for the context c: what the context becomes.
begin_1905_4way_handshake(c) ==
  [c EXCEPT !.ctr = @ + 1, !.an = fresh + 1, !.idx = 1]

\* A discovery request replaces the context of the peer and begins the
\* handshake; the controller computes its GTK the first time.
handle_peer_disc_req_frame(n, p, m, rest) ==
  LET c == begin_1905_4way_handshake(NewCtx) IN
  /\ m.type = "req"
  /\ ctx' = [ctx EXCEPT ![<<n, p>>] = c]
  /\ trans' = [trans EXCEPT ![n] = (@ + 1) % 256]
  /\ IF n = Ctrl /\ gtk[n] = 0
       THEN /\ gtk' = [gtk EXCEPT ![n] = fresh + 2]
            /\ gtkId' = [gtkId EXCEPT ![n] = NextGtkId(@)]
            /\ fresh' = fresh + 2
       ELSE fresh' = fresh + 1 /\ UNCHANGED <<gtk, gtkId>>
  /\ Answer(n, p, rest, <<Disc("resp", m.trans), build_pw_eapol_frame_1(c)>>)
  /\ UNCHANGED <<inst, instGtk, rekeyed>>

\* A response is taken when its transaction id is the current one; it
\* replaces the context.
handle_peer_disc_resp_frame(n, p, m, rest) ==
  /\ m.type = "resp"
  /\ ctx' = IF m.trans = trans[n] THEN [ctx EXCEPT ![<<n, p>>] = NewCtx]
                                  ELSE ctx
  /\ Answer(n, p, rest, <<>>)
  /\ UNCHANGED <<gtk, gtkId, trans, inst, instGtk, rekeyed, fresh>>

------------------------------------------------------------------------------
\* The handlers of the pairwise frames, called by the index last sent, not by
\* what the frame is.  A rejected frame may still leave traces in the context.

\* The supplicant answers with its nonce, which it keeps once it has one.
handle_pw_eapol_frame_1(n, p, m, rest) ==
  LET c == ctx[<<n, p>>]
      a == [c EXCEPT !.ctr = m.ctr, !.an = m.nonce,
                     !.sn = IF @ = 0 THEN fresh + 1 ELSE @]
      d == [a EXCEPT !.ptk = compute_ptk(a), !.kck = compute_ptk(a),
                     !.idx = 2]
  IN
  /\ \/ /\ m.ctr <= c.ctr \/ m.nonce = 0
        /\ ctx' = [ctx EXCEPT ![<<n, p>>].ctr = IF m.ctr > @ THEN m.ctr ELSE @]
        /\ Answer(n, p, rest, <<>>)
        /\ UNCHANGED fresh
     \/ /\ m.ctr > c.ctr /\ m.nonce # 0
        /\ ctx' = [ctx EXCEPT ![<<n, p>>] = d]
        /\ fresh' = IF c.sn = 0 THEN fresh + 1 ELSE fresh
        /\ Answer(n, p, rest, <<build_pw_eapol_frame_2(d)>>)
  /\ UNCHANGED <<gtk, gtkId, trans, inst, instGtk, rekeyed>>

\* The authenticator takes the nonce and computes the keys before it looks at
\* the MIC.  Frame 3 is not built without a GTK, but its counter is drawn.
handle_pw_eapol_frame_2(n, p, m, rest) ==
  LET c == ctx[<<n, p>>]
      a == [c EXCEPT !.sn = m.nonce]
      d == [a EXCEPT !.ptk = compute_ptk(a), !.kck = compute_ptk(a)]
      f == [d EXCEPT !.ctr = @ + 1]
  IN
  /\ \/ /\ m.ctr # c.ctr \/ m.nonce = 0
        /\ Answer(n, p, rest, <<>>)
        /\ UNCHANGED ctx
     \/ /\ m.ctr = c.ctr /\ m.nonce # 0
        /\ \/ /\ ~verify_mic(d, m)
              /\ ctx' = [ctx EXCEPT ![<<n, p>>] = d]
              /\ Answer(n, p, rest, <<>>)
           \/ /\ verify_mic(d, m)
              /\ ctx' = [ctx EXCEPT ![<<n, p>>] =
                           [f EXCEPT !.idx = IF gtk[n] = 0 THEN @ ELSE 3]]
              /\ Answer(n, p, rest,
                        IF gtk[n] = 0 THEN <<>>
                          ELSE <<build_pw_eapol_frame_3(f, gtk[n], gtkId[n])>>)
  /\ UNCHANGED <<gtk, gtkId, trans, inst, instGtk, rekeyed, fresh>>

\* The supplicant installs both keys and clears them.
handle_pw_eapol_frame_3(n, p, m, rest) ==
  LET c == ctx[<<n, p>>] IN
  \/ /\ \/ m.ctr <= c.ctr \/ m.nonce # c.an \/ ~verify_mic(c, m)
        \/ m.key = 0 \/ m.id = 0
     /\ Answer(n, p, rest, <<>>)
     /\ UNCHANGED <<keys>>
  \/ /\ m.ctr > c.ctr /\ m.nonce = c.an /\ verify_mic(c, m)
     /\ m.key # 0 /\ m.id # 0
     /\ ctx' = [ctx EXCEPT ![<<n, p>>] =
                  [c EXCEPT !.ctr = m.ctr, !.idx = 4, !.ptk = {}]]
     /\ inst' = [inst EXCEPT ![<<n, p>>] = Append(@, c.ptk)]
     /\ instGtk' = [instGtk EXCEPT ![n] = Append(@, m.key)]
     /\ gtk' = [gtk EXCEPT ![n] = 0]
     /\ gtkId' = [gtkId EXCEPT ![n] = m.id]
     /\ Answer(n, p, rest, <<build_pw_eapol_frame_4([c EXCEPT !.ctr = m.ctr])>>)
     /\ UNCHANGED <<trans, rekeyed, fresh>>

\* Mutant: the authenticator does not move its counter on.
handle_pw_eapol_frame_4Stays(n, p, m, rest) ==
  LET c == ctx[<<n, p>>] IN
  /\ Answer(n, p, rest, <<>>)
  /\ \/ /\ m.ctr # c.ctr \/ ~verify_mic(c, m)
        /\ UNCHANGED <<ctx, inst>>
     \/ /\ m.ctr = c.ctr /\ verify_mic(c, m)
        /\ ctx' = [ctx EXCEPT ![<<n, p>>] = [c EXCEPT !.ptk = {}]]
        /\ inst' = [inst EXCEPT ![<<n, p>>] = Append(@, c.ptk)]
  /\ UNCHANGED <<gtk, gtkId, trans, instGtk, rekeyed, fresh>>

\* The authenticator installs the PTK, clears it and moves its counter on.
handle_pw_eapol_frame_4(n, p, m, rest) ==
  LET c == ctx[<<n, p>>] IN
  /\ Answer(n, p, rest, <<>>)
  /\ \/ /\ m.ctr # c.ctr \/ ~verify_mic(c, m)
        /\ UNCHANGED <<ctx, inst>>
     \/ /\ m.ctr = c.ctr /\ verify_mic(c, m)
        /\ ctx' = [ctx EXCEPT ![<<n, p>>] =
                     [c EXCEPT !.ctr = @ + 1, !.ptk = {}]]
        /\ inst' = [inst EXCEPT ![<<n, p>>] = Append(@, c.ptk)]
  /\ UNCHANGED <<gtk, gtkId, trans, instGtk, rekeyed, fresh>>

------------------------------------------------------------------------------
\* The group handshake.

\* The counter is taken before the MIC is looked at.
handle_group_eapol_frame_1(n, p, m, rest) ==
  LET c == ctx[<<n, p>>] IN
  \/ /\ m.ctr <= c.ctr
     /\ Answer(n, p, rest, <<>>)
     /\ UNCHANGED <<keys>>
  \/ /\ m.ctr > c.ctr /\ (~verify_mic(c, m) \/ m.id = 0)
     /\ ctx' = [ctx EXCEPT ![<<n, p>>].ctr = m.ctr]
     /\ Answer(n, p, rest, <<>>)
     /\ UNCHANGED <<gtk, gtkId, trans, inst, instGtk, rekeyed, fresh>>
  \/ /\ m.ctr > c.ctr /\ verify_mic(c, m) /\ m.id # 0
     /\ ctx' = [ctx EXCEPT ![<<n, p>>] = [c EXCEPT !.ctr = m.ctr + 1,
                                                   !.idx = 2]]
     /\ instGtk' = [instGtk EXCEPT ![n] = Append(@, m.key)]
     /\ gtk' = [gtk EXCEPT ![n] = 0]
     /\ gtkId' = [gtkId EXCEPT ![n] = m.id]
     /\ Answer(n, p, rest, <<build_group_eapol_frame_2([c EXCEPT !.ctr = m.ctr])>>)
     /\ UNCHANGED <<trans, inst, rekeyed, fresh>>

\* handle_group_eapol_frame_2 only reports: nothing is changed.
handle_group_eapol_frame_2(n, p, rest) ==
  Answer(n, p, rest, <<>>) /\ UNCHANGED <<keys>>

\* handle_eapol_frame: without a PMK, and at any other index, the frame is
\* ignored.
handle_eapol_frame(n, p, m, rest) ==
  LET c == ctx[<<n, p>>]
      handled == c.known /\ (IF m.type = "group" THEN c.idx \in {0, 1}
                                                 ELSE c.idx \in 0 .. 3)
  IN
  /\ m.type \in {"pw", "group"}
  /\ \/ ~handled /\ Answer(n, p, rest, <<>>) /\ UNCHANGED <<keys>>
     \/ /\ handled /\ m.type = "group"
        /\ \/ c.idx = 0 /\ handle_group_eapol_frame_1(n, p, m, rest)
           \/ c.idx = 1 /\ handle_group_eapol_frame_2(n, p, rest)
     \/ /\ handled /\ m.type = "pw"
        /\ \/ c.idx = 0 /\ handle_pw_eapol_frame_1(n, p, m, rest)
           \/ c.idx = 1 /\ handle_pw_eapol_frame_2(n, p, m, rest)
           \/ c.idx = 2 /\ handle_pw_eapol_frame_3(n, p, m, rest)
           \/ c.idx = 3 /\ handle_pw_eapol_frame_4(n, p, m, rest)

------------------------------------------------------------------------------
\* Rekeying.

\* rekey_1905_layer_ptk, on a 1905 rekey request: a 4-way handshake with every
\* peer of the node whose context exists.
rekey_1905_layer_ptk(n) ==
  LET peers == {p \in Nodes : <<n, p>> \in Links /\ ctx[<<n, p>>].known}
      next(l) == begin_1905_4way_handshake(ctx[l])
      mine == {n} \X peers
  IN
  /\ "ptk" \in Rekeys /\ rekeys < MaxRekeys /\ peers # {}
  /\ rekeys' = rekeys + 1
  /\ ctx' = [l \in Links |-> IF l \in mine THEN next(l) ELSE ctx[l]]
  /\ net' = [l \in Links |-> IF l \in mine
                               THEN Append(net[l], build_pw_eapol_frame_1(next(l)))
                               ELSE net[l]]
  /\ trans' = [trans EXCEPT ![n] = (@ + 1) % 256]
  /\ rekeyed' = [l \in Links |-> IF l \in mine THEN Len(inst[l]) + 1
                                               ELSE rekeyed[l]]
  /\ fresh' = fresh + 1
  /\ UNCHANGED <<gtk, gtkId, inst, instGtk, starts, restarts, faults>>

\* rekey_1905_layer_gtk, on the controller only: a new GTK, sent to every
\* peer.
rekey_1905_layer_gtk ==
  LET next(l) == [ctx[l] EXCEPT !.ctr = @ + 1, !.idx = 1]
      mine == {l \in {Ctrl} \X Agents : ctx[l].known}
      id == NextGtkId(gtkId[Ctrl])
  IN
  /\ "gtk" \in Rekeys /\ rekeys < MaxRekeys /\ mine # {}
  /\ rekeys' = rekeys + 1
  /\ fresh' = fresh + 1
  /\ gtk' = [gtk EXCEPT ![Ctrl] = fresh + 1]
  /\ gtkId' = [gtkId EXCEPT ![Ctrl] = id]
  /\ ctx' = [l \in Links |-> IF l \in mine THEN next(l) ELSE ctx[l]]
  /\ net' = [l \in Links |->
               IF l \in mine
                 THEN Append(net[l], build_group_eapol_frame_1(next(l), fresh + 1, id))
                 ELSE net[l]]
  /\ UNCHANGED <<trans, inst, instGtk, rekeyed, starts, restarts, faults>>

------------------------------------------------------------------------------
\* The environment.

\* The link from p to n delivers message i; out of order or with a copy left
\* behind only as a fault.
Deliver(p, n) ==
  \E i \in 1 .. Len(net[<<p, n>>]), keep \in BOOLEAN :
    LET m == net[<<p, n>>][i]
        rest == Rest(p, n, i, keep)
    IN
    /\ IF i > 1 \/ keep THEN faults < MaxFaults /\ faults' = faults + 1
                        ELSE UNCHANGED faults
    /\ \/ handle_peer_disc_req_frame(n, p, m, rest)
       \/ handle_peer_disc_resp_frame(n, p, m, rest)
       \/ handle_eapol_frame(n, p, m, rest)
    /\ UNCHANGED <<starts, restarts, rekeys>>

Lose(p, n) ==
  /\ net[<<p, n>>] # <<>> /\ faults < MaxFaults
  /\ faults' = faults + 1
  /\ net' = [net EXCEPT ![<<p, n>>] = Tail(@)]
  /\ UNCHANGED <<keys, starts, restarts, rekeys>>

\* An agent starts again with the security context it has stored: the layer's
\* object is new.
Restart(a) ==
  /\ restarts < MaxRestarts
  /\ restarts' = restarts + 1
  /\ ctx' = [ctx EXCEPT ![<<a, Ctrl>>] = NoCtx]
  /\ gtk' = [gtk EXCEPT ![a] = 0]
  /\ trans' = [trans EXCEPT ![a] = 0]
  /\ rekeyed' = [rekeyed EXCEPT ![<<a, Ctrl>>] = 0]
  /\ UNCHANGED <<gtkId, inst, instGtk, fresh, net, starts, rekeys, faults>>

Deliveries == \E l \in Links : Deliver(l[1], l[2])

Next ==
  \/ \E a \in Agents : start_secure_1905_layer(a) \/ Restart(a)
  \/ Deliveries
  \/ \E l \in Links : Lose(l[1], l[2])
  \/ \E n \in Nodes : rekey_1905_layer_ptk(n)
  \/ rekey_1905_layer_gtk

Spec == Init /\ [][Next]_vars

\* A message that stays in a link is delivered: handling a received message
\* needs nothing but the thread of the receiver.
Fairness == \A l \in Links : WF_vars(Deliver(l[1], l[2]))
FairSpec == Spec /\ Fairness

------------------------------------------------------------------------------
\* Correctness.

\* A PTK the controller installs for an agent has been installed by that agent
\* before, whatever was lost, repeated, overtaken or restarted: the last check
\* of the handshake (handle_pw_eapol_frame_4) accepts only the answer to the
\* frame 3 of this handshake.
PeerHasKey ==
  \A a \in Agents : ToSet(inst[<<Ctrl, a>>]) \subseteq ToSet(inst[<<a, Ctrl>>])

\* No device installs a PTK twice, and none installs a cleared buffer or a key
\* without two fresh nonces: a repeated frame 3 or 4 finds the counter or the
\* index moved on.
NoReinstall ==
  \A l \in Links : LET s == inst[l] IN
    /\ \A i, j \in 1 .. Len(s) : s[i] = s[j] => i = j
    /\ \A k \in ToSet(s) : k # {} /\ 0 \notin k

\* The handshake ends with one key: after a discovery request controller and
\* agent come to agree on the last PTK installed, and the agent holds the
\* controller's GTK.  Only a fault, a restart or a rekey from then on may stop
\* it; requests that cross a handshake, and what is left of one from before a
\* restart, do not.  One uninitialised id is excepted: 255 is incremented to 0
\* (compute_gtk), which no agent takes.
Secured(a) ==
  /\ inst[<<a, Ctrl>>] # <<>> /\ inst[<<Ctrl, a>>] # <<>>
  /\ Last(inst[<<a, Ctrl>>]) = Last(inst[<<Ctrl, a>>])
  /\ Last(instGtk[a]) = gtk[Ctrl]
Requested(a) == \E i \in 1 .. Len(net[<<a, Ctrl>>]) :
                  net[<<a, Ctrl>>][i].type = "req"
Secures == gtkId[Ctrl] # 255 =>
  \A a \in Agents, k \in 0 .. MaxRestarts :
    (Requested(a) /\ restarts = k /\ faults = 0 /\ rekeys = 0)
      ~> (Secured(a) \/ restarts > k \/ faults > 0 \/ rekeys > 0)

\* A device that begins a handshake for a new PTK comes to install one.
RekeyInstalls ==
  \A l \in Links : (rekeyed[l] > 0) ~> (Len(inst[l]) >= rekeyed[l])
==============================================================================
