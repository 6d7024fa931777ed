--------------------------- MODULE Eapol1905Proofs ---------------------------
(***************************************************************************)
(* The 1905 layer handshakes, for any number of agents, discovery          *)
(* requests, restarts, rekeys and lost, repeated or overtaken messages.    *)
(*                                                                         *)
(* The argument is about one agent and the controller: C and D are what    *)
(* the controller keeps for the agent and the agent for the controller, R  *)
(* and U the messages on their way to the agent and to the controller, IC  *)
(* and IA the PTKs the two have installed, f the last nonce drawn.         *)
(***************************************************************************)
EXTENDS Eapol1905, SequenceTheorems, TLAPS

Ctxs == [known : BOOLEAN, an : Nat, sn : Nat, ptk : SUBSET Nat, kck : SUBSET Nat,
         ctr : Nat, idx : 0 .. 4]
Discs == [type : {"req", "resp"}, trans : Nat]
Frames == [type : {"pw", "group"}, ctr : Nat, nonce : Nat, mic : SUBSET (SUBSET Nat),
           key : Nat, id : Nat]
Msgs == Discs \cup Frames

\* The pairwise frames among the messages.
Pw(M) == {m \in M : m.type = "pw"}

\* No nonce is in use that has not been drawn.
CtxDrawn(c, f) == /\ c.an <= f /\ c.sn <= f
                  /\ \A k \in c.kck : k <= f
NetDrawn(M, f) == \A m \in Pw(M) : m.nonce <= f /\ \A K \in m.mic : \A k \in K : k <= f
KeysDrawn(I, f) == \A K \in I : \A k \in K : k <= f
Drawn(C, D, R, U, IC, IA, f) ==
  /\ CtxDrawn(C, f) /\ CtxDrawn(D, f)
  /\ NetDrawn(R, f) /\ NetDrawn(U, f)
  /\ KeysDrawn(IC, f) /\ KeysDrawn(IA, f)

\* Only the controller is an authenticator that gets past frame 1, and every
\* pairwise frame it sends has its nonce.
Roles(C, D, R, U) ==
  /\ C.known => C.idx \in {1, 3} /\ C.an # 0
  /\ D.idx \in {0, 1, 2, 4}
  /\ \A m \in R : m.type # "req"
  /\ \A m \in U : m.type \notin {"resp", "group"}
  /\ \A m \in Pw(R) : m.nonce # 0

\* The agent's nonce is drawn for this handshake.
Supplicant(C, D, IA) ==
  /\ D.idx = 0 => D.an = 0 /\ D.sn = 0 /\ D.kck = {}
  /\ D.idx = 2 => \/ D.an = 0
                  \/ /\ D.ptk = D.kck /\ D.kck = {D.an, D.sn}
                     /\ D.an # 0 /\ D.sn # 0 /\ D.sn # C.an
                     /\ \A K \in IA : D.sn \notin K

\* A frame without a nonce is frame 4 of a PTK that the agent has installed.
Answers(U, IA) == \A m \in Pw(U) : m.nonce = 0 => \A K \in m.mic : K = {} \/ K \in IA

\* The counters with which the controller's nonce v is on its way, or in what
\* the agent has made of it.
Upto(R, U, v, t) ==
  /\ \A m \in Pw(R) : m.nonce = v => m.ctr <= t
  /\ \A m \in Pw(U) : \A K \in m.mic : v \in K => m.ctr <= t
Before(R, U, v, t) ==
  /\ \A m \in Pw(R) : m.nonce = v => m.ctr < t
  /\ \A m \in Pw(U) : \A K \in m.mic : v \in K => m.ctr < t

\* The controller's handshake: either its nonce is in no installed PTK, or
\* everything with its nonce has an older counter.  With frame 3 sent, a
\* frame that has the right MIC and the counter is not a frame 2.
Authenticator(C, R, U, IC) ==
  C.known =>
    /\ Upto(R, U, C.an, C.ctr)
    /\ C.idx = 1 => \/ Before(R, U, C.an, C.ctr)
                    \/ \A K \in IC : C.an \notin K
    /\ C.idx = 3 => \/ Before(R, U, C.an, C.ctr) /\ C.an \in C.kck
                    \/ /\ C.ptk = C.kck /\ C.kck = {C.an, C.sn} /\ C.sn # 0
                       /\ \A K \in IC : C.an \notin K
                       /\ \A m \in Pw(U) : m.nonce # 0 /\ C.kck \in m.mic => m.ctr < C.ctr

\* What is installed is a key of two nonces, and the agent has it first.
Installed(IC, IA) ==
  /\ IC \subseteq IA
  /\ \A K \in IA : K # {} /\ 0 \notin K

Safe(C, D, R, U, IC, IA, f) ==
  /\ Drawn(C, D, R, U, IC, IA, f)
  /\ Roles(C, D, R, U)
  /\ Supplicant(C, D, IA)
  /\ Answers(U, IA)
  /\ Authenticator(C, R, U, IC)
  /\ Installed(IC, IA)

SafeAgent(a) ==
  Safe(ctx[<<Ctrl, a>>], ctx[<<a, Ctrl>>], ToSet(net[<<Ctrl, a>>]), ToSet(net[<<a, Ctrl>>]),
       ToSet(inst[<<Ctrl, a>>]), ToSet(inst[<<a, Ctrl>>]), fresh)

\* Installed once.
Distinct(s) == \A i, j \in 1 .. Len(s) : s[i] = s[j] => i = j

SInv ==
  /\ \A a \in Agents : SafeAgent(a) /\ gtk[a] = 0
  /\ \A l \in Links : Distinct(inst[l])

------------------------------------------------------------------------------
\* Sequences: what a link and a list of keys hold after a step.

LEMMA SetOfSeq ==
  ASSUME NEW S, NEW s \in Seq(S)
  PROVE  /\ ToSet(s) \subseteq S
         /\ ToSet(s) = {s[i] : i \in 1 .. Len(s)}
<1>1. DOMAIN s = 1 .. Len(s) /\ \A i \in 1 .. Len(s) : s[i] \in S
  BY LenProperties, ElementOfSeq
<1> QED BY <1>1 DEF ToSet

LEMMA SetOfAppend ==
  ASSUME NEW S, NEW s \in Seq(S), NEW e \in S
  PROVE  Append(s, e) \in Seq(S) /\ ToSet(Append(s, e)) = ToSet(s) \cup {e}
<1>p. PICK t : t = Append(s, e)
  OBVIOUS
<1>1. /\ t \in Seq(S) /\ Len(t) = Len(s) + 1 /\ Len(s) \in Nat
      /\ \A i \in 1 .. Len(s) : t[i] = s[i]
      /\ t[Len(s) + 1] = e
  BY <1>p, AppendProperties, LenProperties
<1>s. ToSet(s) = {s[i] : i \in 1 .. Len(s)} /\ ToSet(t) = {t[i] : i \in 1 .. Len(t)}
  BY <1>1, SetOfSeq
<1>2. ASSUME NEW x PROVE x \in ToSet(t) <=> x \in ToSet(s) \cup {e}
  <2>1. (\E i \in 1 .. Len(t) : t[i] = x) <=> ((\E i \in 1 .. Len(s) : s[i] = x) \/ x = e)
    <3>1. \A i \in 1 .. Len(t) : i \in 1 .. Len(s) \/ i = Len(s) + 1
      BY <1>1
    <3>2. \A i \in 1 .. Len(s) : i \in 1 .. Len(t)
      BY <1>1
    <3>3. Len(s) + 1 \in 1 .. Len(t)
      BY <1>1
    <3> QED BY <1>1, <3>1, <3>2, <3>3
  <2> QED BY <1>s, <2>1
<1>3. ToSet(t) = ToSet(s) \cup {e}
  BY <1>2
<1> QED BY <1>p, <1>1, <1>3

LEMMA SetOfConcat ==
  ASSUME NEW S, NEW s \in Seq(S), NEW t \in Seq(S)
  PROVE  s \o t \in Seq(S) /\ ToSet(s \o t) = ToSet(s) \cup ToSet(t)
<1>p. PICK u : u = s \o t
  OBVIOUS
<1>1. /\ u \in Seq(S) /\ Len(u) = Len(s) + Len(t) /\ Len(s) \in Nat /\ Len(t) \in Nat
      /\ \A i \in 1 .. Len(u) : u[i] = IF i <= Len(s) THEN s[i] ELSE t[i - Len(s)]
  BY <1>p, ConcatProperties, LenProperties
<1>s. /\ ToSet(s) = {s[i] : i \in 1 .. Len(s)} /\ ToSet(t) = {t[i] : i \in 1 .. Len(t)}
      /\ ToSet(u) = {u[i] : i \in 1 .. Len(u)}
  BY <1>1, SetOfSeq
<1>2. ASSUME NEW x PROVE x \in ToSet(u) <=> x \in ToSet(s) \cup ToSet(t)
  <2>1. ASSUME NEW i \in 1 .. Len(u)
        PROVE  (\E j \in 1 .. Len(s) : s[j] = u[i]) \/ (\E j \in 1 .. Len(t) : t[j] = u[i])
    <3>1. CASE i <= Len(s)
      BY <1>1, <3>1
    <3>2. CASE ~(i <= Len(s))
      <4>1. i - Len(s) \in 1 .. Len(t) /\ u[i] = t[i - Len(s)]
        BY <1>1, <3>2
      <4> QED BY <4>1
    <3> QED BY <3>1, <3>2
  <2>2. ASSUME NEW j \in 1 .. Len(s)
        PROVE  \E i \in 1 .. Len(u) : u[i] = s[j]
    <3>1. j \in 1 .. Len(u) /\ u[j] = s[j]
      BY <1>1
    <3> QED BY <3>1
  <2>3. ASSUME NEW j \in 1 .. Len(t)
        PROVE  \E i \in 1 .. Len(u) : u[i] = t[j]
    <3>1. j + Len(s) \in 1 .. Len(u) /\ ~(j + Len(s) <= Len(s)) /\ j + Len(s) - Len(s) = j
      BY <1>1
    <3>2. u[j + Len(s)] = t[j]
      BY <1>1, <3>1
    <3> QED BY <3>1, <3>2
  <2> QED BY ZenonT(30), <1>s, <2>1, <2>2, <2>3
<1>3. ToSet(u) = ToSet(s) \cup ToSet(t)
  BY <1>2
<1> QED BY <1>p, <1>1, <1>3

LEMMA SetOfSubSeq ==
  ASSUME NEW S, NEW s \in Seq(S), NEW a \in 1 .. Len(s) + 1, NEW b \in 0 .. Len(s)
  PROVE  SubSeq(s, a, b) \in Seq(S) /\ ToSet(SubSeq(s, a, b)) \subseteq ToSet(s)
<1>p. PICK t : t = SubSeq(s, a, b)
  OBVIOUS
<1>0. Len(s) \in Nat /\ a \in Nat /\ b \in Nat /\ a \in Int /\ b \in Int
  BY LenProperties
<1>1. \A i \in a .. b : s[i] \in S /\ i \in 1 .. Len(s)
  BY <1>0, ElementOfSeq
<1>2. /\ t \in Seq(S) /\ Len(t) = IF a <= b THEN b - a + 1 ELSE 0
      /\ \A i \in 1 .. b - a + 1 : t[i] = s[a + i - 1]
  BY <1>p, <1>0, <1>1, SubSeqProperties
<1>3. \A i \in 1 .. Len(t) : t[i] = s[a + i - 1] /\ a + i - 1 \in a .. b
  BY <1>0, <1>2
<1>4. \A i \in 1 .. Len(t) : \E j \in 1 .. Len(s) : t[i] = s[j]
  BY <1>1, <1>3
<1>5. ToSet(s) = {s[i] : i \in 1 .. Len(s)} /\ ToSet(t) = {t[i] : i \in 1 .. Len(t)}
  BY <1>2, SetOfSeq
<1> QED BY <1>p, <1>2, <1>4, <1>5

LEMMA SetOfRemoveAt ==
  ASSUME NEW S, NEW s \in Seq(S), NEW i \in 1 .. Len(s)
  PROVE  RemoveAt(s, i) \in Seq(S) /\ ToSet(RemoveAt(s, i)) \subseteq ToSet(s)
<1>0. Len(s) \in Nat
  BY LenProperties
<1>1. 1 \in 1 .. Len(s) + 1 /\ i - 1 \in 0 .. Len(s) /\ i + 1 \in 1 .. Len(s) + 1 /\ Len(s) \in 0 .. Len(s)
  BY <1>0
<1>2. /\ SubSeq(s, 1, i - 1) \in Seq(S) /\ ToSet(SubSeq(s, 1, i - 1)) \subseteq ToSet(s)
      /\ SubSeq(s, i + 1, Len(s)) \in Seq(S) /\ ToSet(SubSeq(s, i + 1, Len(s))) \subseteq ToSet(s)
  BY <1>1, SetOfSubSeq
<1>3. PICK t, u : t = SubSeq(s, 1, i - 1) /\ u = SubSeq(s, i + 1, Len(s))
  OBVIOUS
<1>4. /\ t \in Seq(S) /\ u \in Seq(S)
      /\ ToSet(t) \subseteq ToSet(s) /\ ToSet(u) \subseteq ToSet(s)
  BY <1>2, <1>3
<1>5. t \o u \in Seq(S) /\ ToSet(t \o u) = ToSet(t) \cup ToSet(u)
  BY <1>4, SetOfConcat
<1> QED BY <1>3, <1>4, <1>5 DEF RemoveAt

------------------------------------------------------------------------------
\* The steps of one agent and the controller.

\* Fewer messages, and nonces drawn by others.
LEMMA SafeLess ==
  ASSUME NEW C \in Ctxs, NEW D \in Ctxs, NEW R \in SUBSET Msgs, NEW U \in SUBSET Msgs,
         NEW IC \in SUBSET (SUBSET Nat), NEW IA \in SUBSET (SUBSET Nat), NEW f \in Nat,
         Safe(C, D, R, U, IC, IA, f),
         NEW R2 \in SUBSET R, NEW U2 \in SUBSET U, NEW g \in Nat, f <= g
  PROVE  Safe(C, D, R2, U2, IC, IA, g)
<1>1. Drawn(C, D, R2, U2, IC, IA, g)
  <2>1. CtxDrawn(C, g) /\ CtxDrawn(D, g)
    BY DEF Safe, Drawn, CtxDrawn, Ctxs
  <2>2. KeysDrawn(IC, g) /\ KeysDrawn(IA, g)
    BY DEF Safe, Drawn, KeysDrawn
  <2>3. \A m \in Pw(R) \cup Pw(U) : m.nonce \in Nat /\ m.mic \in SUBSET (SUBSET Nat)
    BY DEF Pw, Msgs, Discs, Frames
  <2>4. NetDrawn(R2, g) /\ NetDrawn(U2, g)
    BY <2>3 DEF Safe, Drawn, NetDrawn, Pw
  <2> QED BY <2>1, <2>2, <2>4 DEF Drawn
<1>2. Roles(C, D, R2, U2)
  BY DEF Safe, Roles, Pw
<1>3. Answers(U2, IA)
  BY DEF Safe, Answers, Pw
<1>4. Authenticator(C, R2, U2, IC)
  <2>1. Upto(R, U, C.an, C.ctr) => Upto(R2, U2, C.an, C.ctr)
    BY DEF Upto, Pw
  <2>2. Before(R, U, C.an, C.ctr) => Before(R2, U2, C.an, C.ctr)
    BY DEF Before, Pw
  <2>3. Pw(U2) \subseteq Pw(U)
    BY DEF Pw
  <2> QED BY <2>1, <2>2, <2>3 DEF Safe, Authenticator
<1> QED BY <1>1, <1>2, <1>3, <1>4 DEF Safe

\* The controller begins a handshake, on a discovery request or for a new PTK.
LEMMA SafeBegin ==
  ASSUME NEW C \in Ctxs, NEW D \in Ctxs, NEW R \in SUBSET Msgs, NEW U \in SUBSET Msgs,
         NEW IC \in SUBSET (SUBSET Nat), NEW IA \in SUBSET (SUBSET Nat), NEW f \in Nat,
         Safe(C, D, R, U, IC, IA, f),
         NEW E \in Ctxs, E.known, E.idx = 1, E.an = f + 1, E.sn <= f, \A k \in E.kck : k <= f,
         NEW N \in SUBSET Msgs, \A m \in N : m.type # "req",
         \A m \in Pw(N) : m.nonce = f + 1 /\ m.ctr = E.ctr /\ m.mic = {}
  PROVE  Safe(E, D, R \cup N, U, IC, IA, f + 1)
<1>0. \A m \in Pw(R) \cup Pw(U) : m.nonce \in Nat /\ m.ctr \in Nat /\ m.mic \in SUBSET (SUBSET Nat)
  BY DEF Pw, Msgs, Discs, Frames
<1>1. Pw(R \cup N) = Pw(R) \cup Pw(N)
  BY DEF Pw
<1>2. Drawn(E, D, R \cup N, U, IC, IA, f + 1)
  <2>1. CtxDrawn(E, f + 1) /\ CtxDrawn(D, f + 1)
    BY DEF Safe, Drawn, CtxDrawn, Ctxs
  <2>2. KeysDrawn(IC, f + 1) /\ KeysDrawn(IA, f + 1)
    BY DEF Safe, Drawn, KeysDrawn
  <2>3. \A n \in Nat : n <= f => n <= f + 1
    OBVIOUS
  <2>4. NetDrawn(R, f + 1) /\ NetDrawn(U, f + 1)
    BY <1>0, <2>3 DEF Safe, Drawn, NetDrawn
  <2>5. \A m \in Pw(N) : m.nonce <= f + 1 /\ \A K \in m.mic : \A k \in K : k <= f + 1
    OBVIOUS
  <2>6. NetDrawn(R \cup N, f + 1)
    BY <1>1, <2>4, <2>5 DEF NetDrawn
  <2> QED BY <2>1, <2>2, <2>4, <2>6 DEF Drawn
<1>3. Roles(E, D, R \cup N, U)
  <2>1. f + 1 # 0
    OBVIOUS
  <2>2. \A m \in Pw(R \cup N) : m.nonce # 0
    BY <1>1, <2>1 DEF Safe, Roles
  <2> QED BY <2>1, <2>2 DEF Safe, Roles
<1>4. Supplicant(E, D, IA)
  BY DEF Safe, Supplicant, Drawn, CtxDrawn, Ctxs
<1>5. Authenticator(E, R \cup N, U, IC)
  <2>1. \A m \in Pw(R) : m.nonce # f + 1
    BY <1>0 DEF Safe, Drawn, NetDrawn
  <2>2. \A m \in Pw(U) : \A K \in m.mic : f + 1 \notin K
    BY <1>0 DEF Safe, Drawn, NetDrawn
  <2>3. \A K \in IC : f + 1 \notin K
    BY DEF Safe, Drawn, KeysDrawn
  <2>4. Upto(R \cup N, U, E.an, E.ctr)
    <3>1. E.ctr \in Nat /\ E.ctr <= E.ctr
      BY DEF Ctxs
    <3>2. \A m \in Pw(R \cup N) : m.nonce = E.an => m.ctr <= E.ctr
      BY <1>1, <2>1, <3>1
    <3> QED BY <2>2, <3>2 DEF Upto
  <2> QED BY <2>3, <2>4 DEF Authenticator
<1> QED BY <1>2, <1>3, <1>4, <1>5 DEF Safe

\* The agent starts with a new context, or changes it without a role in an
\* installation.
LEMMA SafeContext ==
  ASSUME NEW C \in Ctxs, NEW D \in Ctxs, NEW R \in SUBSET Msgs, NEW U \in SUBSET Msgs,
         NEW IC \in SUBSET (SUBSET Nat), NEW IA \in SUBSET (SUBSET Nat), NEW f \in Nat,
         Safe(C, D, R, U, IC, IA, f),
         NEW E \in Ctxs, E.an <= f, E.sn <= f, \A k \in E.kck : k <= f,
         \/ E.idx = 1
         \/ E.idx = 0 /\ E.an = 0 /\ E.sn = 0 /\ E.kck = {}
         \/ E.idx = 2 /\ E.an = 0
  PROVE  Safe(C, E, R, U, IC, IA, f)
<1>1. Drawn(C, E, R, U, IC, IA, f)
  BY DEF Safe, Drawn, CtxDrawn
<1>2. Roles(C, E, R, U)
  BY DEF Safe, Roles
<1>3. Supplicant(C, E, IA)
  BY DEF Supplicant
<1> QED BY <1>1, <1>2, <1>3 DEF Safe

\* The agent sends a frame that tells the controller nothing: the first of a
\* handshake of its own, or the last one of a group handshake.
LEMMA SafeSend ==
  ASSUME NEW C \in Ctxs, NEW D \in Ctxs, NEW R \in SUBSET Msgs, NEW U \in SUBSET Msgs,
         NEW IC \in SUBSET (SUBSET Nat), NEW IA \in SUBSET (SUBSET Nat), NEW f \in Nat,
         Safe(C, D, R, U, IC, IA, f),
         NEW x \in Msgs, x.type \in {"req", "pw"},
         x.type = "pw" => x.nonce <= f /\ \A K \in x.mic : K = {}
  PROVE  Safe(C, D, R, U \cup {x}, IC, IA, f)
<1>1. Pw(U \cup {x}) \subseteq Pw(U) \cup {x} /\ (x \in Pw(U \cup {x}) => x.type = "pw")
  BY DEF Pw
<1>2. Drawn(C, D, R, U \cup {x}, IC, IA, f)
  BY <1>1 DEF Safe, Drawn, NetDrawn
<1>3. Roles(C, D, R, U \cup {x})
  BY DEF Safe, Roles
<1>4. Answers(U \cup {x}, IA)
  BY <1>1 DEF Safe, Answers
<1>5. Authenticator(C, R, U \cup {x}, IC)
  <2>1. Upto(R, U, C.an, C.ctr) => Upto(R, U \cup {x}, C.an, C.ctr)
    BY <1>1 DEF Upto
  <2>2. Before(R, U, C.an, C.ctr) => Before(R, U \cup {x}, C.an, C.ctr)
    BY <1>1 DEF Before
  <2>3. C.kck = {C.an, C.sn} => C.kck # {}
    OBVIOUS
  <2> QED BY <1>1, <2>1, <2>2, <2>3 DEF Safe, Authenticator
<1> QED BY <1>2, <1>3, <1>4, <1>5 DEF Safe

\* The agent takes the nonce of frame 1, or of a frame 3 in its place, draws its
\* own and answers.
LEMMA SafeFrame1 ==
  ASSUME NEW C \in Ctxs, NEW D \in Ctxs, NEW R \in SUBSET Msgs, NEW U \in SUBSET Msgs,
         NEW IC \in SUBSET (SUBSET Nat), NEW IA \in SUBSET (SUBSET Nat), NEW f \in Nat,
         Safe(C, D, R, U, IC, IA, f),
         NEW m \in Pw(R), NEW E \in Ctxs, E.idx = 2, E.an = m.nonce, E.sn = f + 1,
         E.ptk = {m.nonce, f + 1}, E.kck = {m.nonce, f + 1},
         NEW x \in Msgs, x.type = "pw", x.ctr = m.ctr, x.nonce = f + 1, x.mic = {{m.nonce, f + 1}}
  PROVE  Safe(C, E, R, U \cup {x}, IC, IA, f + 1)
<1>0. /\ \A y \in Pw(R) \cup Pw(U) : y.nonce \in Nat /\ y.ctr \in Nat /\ y.mic \in SUBSET (SUBSET Nat)
      /\ m.nonce \in Nat /\ m.nonce # 0 /\ m.nonce <= f /\ C.an \in Nat /\ C.an <= f
  BY DEF Pw, Msgs, Discs, Frames, Safe, Roles, Drawn, NetDrawn, CtxDrawn, Ctxs
<1>1. Pw(U \cup {x}) = Pw(U) \cup {x}
  BY DEF Pw
<1>2. Drawn(C, E, R, U \cup {x}, IC, IA, f + 1)
  <2>1. CtxDrawn(C, f + 1) /\ CtxDrawn(E, f + 1)
    BY <1>0 DEF Safe, Drawn, CtxDrawn, Ctxs
  <2>2. KeysDrawn(IC, f + 1) /\ KeysDrawn(IA, f + 1)
    BY DEF Safe, Drawn, KeysDrawn
  <2>3. NetDrawn(R, f + 1)
    BY <1>0 DEF Safe, Drawn, NetDrawn
  <2>4. NetDrawn(U \cup {x}, f + 1)
    BY <1>0, <1>1 DEF Safe, Drawn, NetDrawn
  <2> QED BY <2>1, <2>2, <2>3, <2>4 DEF Drawn
<1>3. Roles(C, E, R, U \cup {x})
  BY DEF Safe, Roles
<1>4. Supplicant(C, E, IA)
  <2>1. \A K \in IA : f + 1 \notin K
    BY DEF Safe, Drawn, KeysDrawn
  <2> QED BY <1>0, <2>1 DEF Supplicant
<1>5. Answers(U \cup {x}, IA)
  BY <1>1 DEF Safe, Answers
<1>6. Authenticator(C, R, U \cup {x}, IC)
  <2>1. \A K \in x.mic : C.an \in K => C.an = m.nonce
    BY <1>0
  <2>2. Upto(R, U, C.an, C.ctr) => Upto(R, U \cup {x}, C.an, C.ctr)
    BY <1>1, <2>1 DEF Upto
  <2>3. Before(R, U, C.an, C.ctr) => Before(R, U \cup {x}, C.an, C.ctr)
    BY <1>1, <2>1 DEF Before
  <2>4. C.kck \notin x.mic
    <3>1. f + 1 \notin C.kck
      BY DEF Safe, Drawn, CtxDrawn, Ctxs
    <3> QED BY <3>1
  <2> QED BY <1>1, <2>2, <2>3, <2>4 DEF Safe, Authenticator
<1> QED BY <1>2, <1>3, <1>4, <1>5, <1>6 DEF Safe

\* The controller takes a nonce for that of frame 2, and the MIC is wrong.
LEMMA SafeFrame2Wrong ==
  ASSUME NEW C \in Ctxs, NEW D \in Ctxs, NEW R \in SUBSET Msgs, NEW U \in SUBSET Msgs,
         NEW IC \in SUBSET (SUBSET Nat), NEW IA \in SUBSET (SUBSET Nat), NEW f \in Nat,
         Safe(C, D, R, U, IC, IA, f), C.known, C.idx = 1,
         NEW E \in Ctxs, E.known, E.idx = 1, E.an = C.an, E.ctr = C.ctr, E.sn <= f,
         E.kck = {C.an, E.sn}
  PROVE  Safe(E, D, R, U, IC, IA, f)
<1>1. Drawn(E, D, R, U, IC, IA, f)
  BY DEF Safe, Drawn, CtxDrawn
<1>2. Roles(E, D, R, U)
  BY DEF Safe, Roles
<1>3. Supplicant(E, D, IA)
  BY DEF Safe, Supplicant
<1>4. Authenticator(E, R, U, IC)
  BY DEF Safe, Authenticator
<1> QED BY <1>1, <1>2, <1>3, <1>4 DEF Safe

\* The MIC is right, and frame 3 is sent.
LEMMA SafeFrame2 ==
  ASSUME NEW C \in Ctxs, NEW D \in Ctxs, NEW R \in SUBSET Msgs, NEW U \in SUBSET Msgs,
         NEW IC \in SUBSET (SUBSET Nat), NEW IA \in SUBSET (SUBSET Nat), NEW f \in Nat,
         Safe(C, D, R, U, IC, IA, f), C.known, C.idx = 1,
         NEW m \in Pw(U), m.ctr = C.ctr, m.nonce # 0, m.mic = {{C.an, m.nonce}},
         NEW E \in Ctxs, E.known, E.idx \in {1, 3}, E.an = C.an, E.ctr = C.ctr + 1, E.sn = m.nonce,
         E.ptk = {C.an, m.nonce}, E.kck = {C.an, m.nonce},
         NEW N \in SUBSET Msgs,
         \A y \in N : /\ y.type = "pw" /\ y.ctr = E.ctr /\ y.nonce = C.an /\ y.mic = {E.kck}
  PROVE  Safe(E, D, R \cup (IF E.idx = 1 THEN {} ELSE N), U, IC, IA, f)
<1> DEFINE M == IF E.idx = 1 THEN {} ELSE N
<1>0. /\ \A y \in Pw(R) \cup Pw(U) : y.nonce \in Nat /\ y.ctr \in Nat /\ y.mic \in SUBSET (SUBSET Nat)
      /\ C.an \in Nat /\ C.an # 0 /\ C.an <= f /\ m.nonce <= f /\ C.ctr \in Nat
  BY DEF Pw, Msgs, Discs, Frames, Safe, Roles, Drawn, NetDrawn, CtxDrawn, Ctxs
<1>1. Pw(R \cup M) = Pw(R) \cup M
  BY DEF Pw
<1>2. Drawn(E, D, R \cup M, U, IC, IA, f)
  <2>1. CtxDrawn(E, f)
    BY <1>0 DEF CtxDrawn
  <2>2. NetDrawn(R \cup M, f)
    BY <1>0, <1>1 DEF Safe, Drawn, NetDrawn
  <2> QED BY <2>1, <2>2 DEF Safe, Drawn
<1>3. Roles(E, D, R \cup M, U)
  BY <1>0, <1>1 DEF Safe, Roles
<1>4. Supplicant(E, D, IA)
  BY DEF Safe, Supplicant
<1>5. Authenticator(E, R \cup M, U, IC)
  <2>1. Upto(R, U, C.an, C.ctr)
    BY DEF Safe, Authenticator
  <2>2. ~Before(R, U, C.an, C.ctr)
    BY <1>0 DEF Before
  <2>3. \A K \in IC : C.an \notin K
    BY <2>2 DEF Safe, Authenticator
  <2>4. Upto(R \cup M, U, E.an, E.ctr)
    <3>1. /\ \A y \in Pw(R) : y.nonce = C.an => y.ctr <= E.ctr
          /\ \A y \in Pw(U) : \A K \in y.mic : C.an \in K => y.ctr <= E.ctr
      <4>1. \A t \in Nat : t <= C.ctr => t <= E.ctr
        BY <1>0
      <4> QED BY <1>0, <2>1, <4>1 DEF Upto
    <3>2. \A y \in M : y.ctr <= E.ctr
      BY <1>0
    <3> QED BY <1>1, <3>1, <3>2 DEF Upto
  <2>5. \A y \in Pw(U) : E.kck \in y.mic => y.ctr < E.ctr
    <3> SUFFICES ASSUME NEW y \in Pw(U), E.kck \in y.mic PROVE y.ctr < E.ctr
      OBVIOUS
    <3>1. C.an \in E.kck
      OBVIOUS
    <3>2. y.ctr <= C.ctr
      BY <2>1, <3>1 DEF Upto
    <3> QED BY <1>0, <3>2
  <2> QED BY <2>3, <2>4, <2>5 DEF Authenticator
<1> QED BY <1>2, <1>3, <1>4, <1>5 DEF Safe

\* The agent installs the PTK and sends frame 4.
LEMMA SafeFrame3 ==
  ASSUME NEW C \in Ctxs, NEW D \in Ctxs, NEW R \in SUBSET Msgs, NEW U \in SUBSET Msgs,
         NEW IC \in SUBSET (SUBSET Nat), NEW IA \in SUBSET (SUBSET Nat), NEW f \in Nat,
         Safe(C, D, R, U, IC, IA, f), D.idx = 2,
         NEW m \in Pw(R), m.nonce = D.an,
         NEW E \in Ctxs, E.idx = 4, E.an = D.an, E.sn = D.sn, E.kck = D.kck,
         NEW x \in Msgs, x.type = "pw", x.ctr = m.ctr, x.nonce = 0, x.mic = {D.kck}
  PROVE  /\ D.ptk \notin IA
         /\ Safe(C, E, R, U \cup {x}, IC, IA \cup {D.ptk}, f)
<1>0. /\ \A y \in Pw(R) \cup Pw(U) : y.nonce \in Nat /\ y.ctr \in Nat /\ y.mic \in SUBSET (SUBSET Nat)
      /\ m.nonce # 0
  BY DEF Pw, Msgs, Discs, Frames, Safe, Roles
<1>1. /\ D.ptk = D.kck /\ D.kck = {D.an, D.sn}
      /\ D.an # 0 /\ D.sn # 0 /\ D.sn # C.an
      /\ \A K \in IA : D.sn \notin K
  BY <1>0 DEF Safe, Supplicant
<1>2. Pw(U \cup {x}) = Pw(U) \cup {x}
  BY DEF Pw
<1>3. Drawn(C, E, R, U \cup {x}, IC, IA \cup {D.ptk}, f)
  <2>1. CtxDrawn(E, f)
    BY DEF Safe, Drawn, CtxDrawn
  <2>2. NetDrawn(U \cup {x}, f)
    BY <1>2 DEF Safe, Drawn, NetDrawn, CtxDrawn
  <2>3. KeysDrawn(IA \cup {D.ptk}, f)
    BY <1>1 DEF Safe, Drawn, KeysDrawn, CtxDrawn
  <2> QED BY <2>1, <2>2, <2>3 DEF Safe, Drawn
<1>4. Roles(C, E, R, U \cup {x})
  BY DEF Safe, Roles
<1>5. Supplicant(C, E, IA \cup {D.ptk})
  BY DEF Supplicant
<1>6. Answers(U \cup {x}, IA \cup {D.ptk})
  BY <1>1, <1>2 DEF Safe, Answers
<1>7. Authenticator(C, R, U \cup {x}, IC)
  <2>1. \A K \in x.mic : C.an \in K => C.an = m.nonce
    BY <1>1
  <2>2. Upto(R, U, C.an, C.ctr) => Upto(R, U \cup {x}, C.an, C.ctr)
    BY <1>2, <2>1 DEF Upto
  <2>3. Before(R, U, C.an, C.ctr) => Before(R, U \cup {x}, C.an, C.ctr)
    BY <1>2, <2>1 DEF Before
  <2> QED BY <1>2, <2>2, <2>3 DEF Safe, Authenticator
<1>8. Installed(IC, IA \cup {D.ptk})
  BY <1>1 DEF Safe, Installed
<1> QED BY <1>1, <1>3, <1>4, <1>5, <1>6, <1>7, <1>8 DEF Safe

\* The controller installs the PTK.
LEMMA SafeFrame4 ==
  ASSUME NEW C \in Ctxs, NEW D \in Ctxs, NEW R \in SUBSET Msgs, NEW U \in SUBSET Msgs,
         NEW IC \in SUBSET (SUBSET Nat), NEW IA \in SUBSET (SUBSET Nat), NEW f \in Nat,
         Safe(C, D, R, U, IC, IA, f), C.known, C.idx = 3,
         NEW m \in Pw(U), m.ctr = C.ctr, m.mic = {C.kck},
         NEW E \in Ctxs, E.known, E.idx = 3, E.an = C.an, E.sn = C.sn, E.kck = C.kck, E.ctr = C.ctr + 1
  PROVE  /\ C.ptk \notin IC
         /\ Safe(E, D, R, U, IC \cup {C.ptk}, IA, f)
<1>0. /\ \A y \in Pw(R) \cup Pw(U) : y.nonce \in Nat /\ y.ctr \in Nat /\ y.mic \in SUBSET (SUBSET Nat)
      /\ C.ctr \in Nat
  BY DEF Pw, Msgs, Discs, Frames, Ctxs
<1>1. /\ C.ptk = C.kck /\ C.kck = {C.an, C.sn} /\ \A K \in IC : C.an \notin K
      /\ \A y \in Pw(U) : y.nonce # 0 /\ C.kck \in y.mic => y.ctr < C.ctr
  <2>1. ~(Before(R, U, C.an, C.ctr) /\ C.an \in C.kck)
    BY <1>0 DEF Before
  <2> QED BY <2>1 DEF Safe, Authenticator
<1>2. C.ptk \in IA
  <2>1. m.nonce = 0
    BY <1>0, <1>1
  <2> QED BY <1>1, <2>1 DEF Safe, Answers
<1>3. Drawn(E, D, R, U, IC \cup {C.ptk}, IA, f)
  BY <1>1 DEF Safe, Drawn, CtxDrawn, KeysDrawn
<1>4. Roles(E, D, R, U)
  BY DEF Safe, Roles
<1>5. Supplicant(E, D, IA)
  BY DEF Safe, Supplicant
<1>6. Authenticator(E, R, U, IC \cup {C.ptk})
  <2>1. Upto(R, U, C.an, C.ctr)
    BY DEF Safe, Authenticator
  <2>2. Before(R, U, E.an, E.ctr) /\ Upto(R, U, E.an, E.ctr)
    BY <1>0, <2>1 DEF Upto, Before
  <2> QED BY <1>1, <2>2 DEF Authenticator
<1>7. Installed(IC \cup {C.ptk}, IA)
  BY <1>2 DEF Safe, Installed
<1> QED BY <1>1, <1>3, <1>4, <1>5, <1>6, <1>7 DEF Safe

\* The controller sends a new GTK: frames of the handshake before are old.
LEMMA SafeGroup ==
  ASSUME NEW C \in Ctxs, NEW D \in Ctxs, NEW R \in SUBSET Msgs, NEW U \in SUBSET Msgs,
         NEW IC \in SUBSET (SUBSET Nat), NEW IA \in SUBSET (SUBSET Nat), NEW f \in Nat,
         Safe(C, D, R, U, IC, IA, f), C.known,
         NEW E \in Ctxs, E.known, E.idx = 1, E.an = C.an, E.sn = C.sn, E.kck = C.kck, E.ctr = C.ctr + 1,
         NEW x \in Msgs, x.type = "group"
  PROVE  Safe(E, D, R \cup {x}, U, IC, IA, f)
<1>0. /\ \A y \in Pw(R) \cup Pw(U) : y.nonce \in Nat /\ y.ctr \in Nat /\ y.mic \in SUBSET (SUBSET Nat)
      /\ C.ctr \in Nat
  BY DEF Pw, Msgs, Discs, Frames, Ctxs
<1>1. Pw(R \cup {x}) = Pw(R)
  BY DEF Pw
<1>2. Drawn(E, D, R \cup {x}, U, IC, IA, f)
  BY <1>1 DEF Safe, Drawn, CtxDrawn, NetDrawn
<1>3. Roles(E, D, R \cup {x}, U)
  BY <1>1 DEF Safe, Roles
<1>4. Supplicant(E, D, IA)
  BY DEF Safe, Supplicant
<1>5. Authenticator(E, R \cup {x}, U, IC)
  <2>1. Upto(R, U, C.an, C.ctr)
    BY DEF Safe, Authenticator
  <2>2. Before(R \cup {x}, U, E.an, E.ctr) /\ Upto(R \cup {x}, U, E.an, E.ctr)
    <3>1. \A t \in Nat : t <= C.ctr => t < E.ctr /\ t <= E.ctr
      BY <1>0
    <3> QED BY <1>0, <1>1, <2>1, <3>1 DEF Upto, Before
  <2> QED BY <2>2 DEF Authenticator
<1> QED BY <1>2, <1>3, <1>4, <1>5 DEF Safe

------------------------------------------------------------------------------
\* From one agent to all of them.

Typed ==
  /\ ctx \in [Links -> Ctxs]
  /\ net \in [Links -> Seq(Msgs)]
  /\ inst \in [Links -> Seq(SUBSET Nat)]
  /\ gtk \in [Nodes -> Nat] /\ gtkId \in [Nodes -> Nat] /\ trans \in [Nodes -> Nat]
  /\ fresh \in Nat

LEMMA LinkFacts ==
  /\ \A a \in Agents : /\ <<Ctrl, a>> \in Links /\ <<a, Ctrl>> \in Links
                       /\ <<Ctrl, a>> # <<a, Ctrl>> /\ a # Ctrl
  /\ \A a, b \in Agents : a # b =>
       /\ <<Ctrl, a>> # <<Ctrl, b>> /\ <<a, Ctrl>> # <<b, Ctrl>>
       /\ <<Ctrl, a>> # <<b, Ctrl>> /\ <<a, Ctrl>> # <<Ctrl, b>>
  /\ \A l \in Links : \E a \in Agents : l = <<Ctrl, a>> \/ l = <<a, Ctrl>>
  BY EapolAssumption DEF Links

\* The state of one link is of the kinds that the steps above are about.
LEMMA AgentTyped ==
  ASSUME Typed, NEW a \in Agents
  PROVE  /\ ctx[<<Ctrl, a>>] \in Ctxs /\ ctx[<<a, Ctrl>>] \in Ctxs
         /\ ToSet(net[<<Ctrl, a>>]) \in SUBSET Msgs /\ ToSet(net[<<a, Ctrl>>]) \in SUBSET Msgs
         /\ ToSet(inst[<<Ctrl, a>>]) \in SUBSET (SUBSET Nat)
         /\ ToSet(inst[<<a, Ctrl>>]) \in SUBSET (SUBSET Nat)
<1>1. /\ ctx[<<Ctrl, a>>] \in Ctxs /\ ctx[<<a, Ctrl>>] \in Ctxs
      /\ net[<<Ctrl, a>>] \in Seq(Msgs) /\ net[<<a, Ctrl>>] \in Seq(Msgs)
      /\ inst[<<Ctrl, a>>] \in Seq(SUBSET Nat) /\ inst[<<a, Ctrl>>] \in Seq(SUBSET Nat)
  BY LinkFacts DEF Typed
<1>2. /\ ToSet(net[<<Ctrl, a>>]) \subseteq Msgs /\ ToSet(net[<<a, Ctrl>>]) \subseteq Msgs
      /\ ToSet(inst[<<Ctrl, a>>]) \subseteq SUBSET Nat
      /\ ToSet(inst[<<a, Ctrl>>]) \subseteq SUBSET Nat
  BY <1>1, SetOfSeq
<1> QED BY <1>1, <1>2

\* What others do does not matter, nor that messages get lost.
LEMMA LessKeeps ==
  ASSUME Typed, NEW b \in Agents, SafeAgent(b),
         ctx'[<<Ctrl, b>>] = ctx[<<Ctrl, b>>], ctx'[<<b, Ctrl>>] = ctx[<<b, Ctrl>>],
         inst'[<<Ctrl, b>>] = inst[<<Ctrl, b>>], inst'[<<b, Ctrl>>] = inst[<<b, Ctrl>>],
         ToSet(net'[<<Ctrl, b>>]) \subseteq ToSet(net[<<Ctrl, b>>]),
         ToSet(net'[<<b, Ctrl>>]) \subseteq ToSet(net[<<b, Ctrl>>]),
         fresh' \in Nat, fresh <= fresh'
  PROVE  SafeAgent(b)'
<1>1. Safe(ctx[<<Ctrl, b>>], ctx[<<b, Ctrl>>], ToSet(net[<<Ctrl, b>>]), ToSet(net[<<b, Ctrl>>]),
           ToSet(inst[<<Ctrl, b>>]), ToSet(inst[<<b, Ctrl>>]), fresh)
  BY DEF SafeAgent
<1>2. fresh \in Nat
  BY DEF Typed
<1>3. Safe(ctx[<<Ctrl, b>>], ctx[<<b, Ctrl>>], ToSet(net'[<<Ctrl, b>>]), ToSet(net'[<<b, Ctrl>>]),
           ToSet(inst[<<Ctrl, b>>]), ToSet(inst[<<b, Ctrl>>]), fresh')
  <2>1. PICK C, D, R, U, IC, IA :
          /\ C = ctx[<<Ctrl, b>>] /\ D = ctx[<<b, Ctrl>>]
          /\ R = ToSet(net[<<Ctrl, b>>]) /\ U = ToSet(net[<<b, Ctrl>>])
          /\ IC = ToSet(inst[<<Ctrl, b>>]) /\ IA = ToSet(inst[<<b, Ctrl>>])
    OBVIOUS
  <2>2. PICK R2, U2 : R2 = ToSet(net'[<<Ctrl, b>>]) /\ U2 = ToSet(net'[<<b, Ctrl>>])
    OBVIOUS
  <2>3. /\ C \in Ctxs /\ D \in Ctxs /\ R \in SUBSET Msgs /\ U \in SUBSET Msgs
        /\ IC \in SUBSET (SUBSET Nat) /\ IA \in SUBSET (SUBSET Nat)
    BY <2>1, AgentTyped
  <2>4. Safe(C, D, R, U, IC, IA, fresh) /\ R2 \in SUBSET R /\ U2 \in SUBSET U
    BY <1>1, <2>1, <2>2
  <2>5. Safe(C, D, R2, U2, IC, IA, fresh')
    BY <1>2, <2>3, <2>4, SafeLess
  <2> QED BY <2>1, <2>2, <2>5
<1> QED BY <1>3 DEF SafeAgent

\* What Answer leaves in the two links.
LEMMA AnswerNet ==
  ASSUME Typed, NEW n, NEW p, <<p, n>> \in Links, <<n, p>> \in Links, <<p, n>> # <<n, p>>,
         NEW i \in 1 .. Len(net[<<p, n>>]), NEW keep \in BOOLEAN, NEW out \in Seq(Msgs),
         Answer(n, p, Rest(p, n, i, keep), out)
  PROVE  /\ net' \in [Links -> Seq(Msgs)]
         /\ ToSet(net'[<<p, n>>]) \subseteq ToSet(net[<<p, n>>])
         /\ ToSet(net'[<<n, p>>]) = ToSet(net[<<n, p>>]) \cup ToSet(out)
         /\ \A l \in Links \ {<<p, n>>, <<n, p>>} : net'[l] = net[l]
<1>1. net[<<p, n>>] \in Seq(Msgs) /\ net[<<n, p>>] \in Seq(Msgs)
  BY DEF Typed
<1>2. PICK rest : rest = Rest(p, n, i, keep)
  OBVIOUS
<1>3. rest \in Seq(Msgs) /\ ToSet(rest) \subseteq ToSet(net[<<p, n>>])
  BY <1>1, <1>2, SetOfRemoveAt DEF Rest
<1>4. PICK sent : sent = net[<<n, p>>] \o out
  OBVIOUS
<1>5. sent \in Seq(Msgs) /\ ToSet(sent) = ToSet(net[<<n, p>>]) \cup ToSet(out)
  <2>1. PICK s \in Seq(Msgs) : s = net[<<n, p>>]
    BY <1>1
  <2>2. s \o out \in Seq(Msgs) /\ ToSet(s \o out) = ToSet(s) \cup ToSet(out)
    BY SetOfConcat
  <2> QED BY <1>4, <2>1, <2>2
<1>6. net' = [[net EXCEPT ![<<p, n>>] = rest] EXCEPT ![<<n, p>>] = sent]
  BY <1>2, <1>4 DEF Answer, Typed
<1>7. /\ net' \in [Links -> Seq(Msgs)]
      /\ net'[<<p, n>>] = rest /\ net'[<<n, p>>] = sent
      /\ \A l \in Links \ {<<p, n>>, <<n, p>>} : net'[l] = net[l]
  BY <1>3, <1>5, <1>6 DEF Typed
<1> QED BY <1>3, <1>5, <1>7

LEMMA DistinctAppend ==
  ASSUME NEW S, NEW s \in Seq(S), NEW k \in S, Distinct(s), k \notin ToSet(s)
  PROVE  /\ Append(s, k) \in Seq(S) /\ Distinct(Append(s, k))
         /\ ToSet(Append(s, k)) = ToSet(s) \cup {k}
<1>1. PICK t : t = Append(s, k)
  OBVIOUS
<1>2. /\ t \in Seq(S) /\ Len(t) = Len(s) + 1 /\ Len(s) \in Nat
      /\ \A i \in 1 .. Len(s) : t[i] = s[i]
      /\ t[Len(s) + 1] = k
  BY <1>1, AppendProperties, LenProperties
<1>3. \A i \in 1 .. Len(s) : s[i] # k
  BY SetOfSeq
<1>4. Distinct(t)
  <2> SUFFICES ASSUME NEW i \in 1 .. Len(t), NEW j \in 1 .. Len(t), t[i] = t[j] PROVE i = j
    BY DEF Distinct
  <2>1. (i \in 1 .. Len(s) \/ i = Len(s) + 1) /\ (j \in 1 .. Len(s) \/ j = Len(s) + 1)
    BY <1>2
  <2> QED BY <1>2, <1>3, <2>1 DEF Distinct
<1> QED BY <1>1, <1>2, <1>4, SetOfAppend

\* The controller has handled a message of agent a.
LEMMA UpDelivery ==
  ASSUME Typed, SInv, NEW a \in Agents,
         NEW i \in 1 .. Len(net[<<a, Ctrl>>]), NEW keep \in BOOLEAN, NEW out \in Seq(Msgs),
         Answer(Ctrl, a, Rest(a, Ctrl, i, keep), out),
         NEW E \in Ctxs, ctx' = [ctx EXCEPT ![<<Ctrl, a>>] = E],
         NEW s \in Seq(SUBSET Nat), inst' = [inst EXCEPT ![<<Ctrl, a>>] = s], Distinct(s),
         gtk' \in [Nodes -> Nat], gtkId' \in [Nodes -> Nat], trans' \in [Nodes -> Nat],
         \A b \in Agents : gtk'[b] = gtk[b],
         fresh' \in Nat, fresh <= fresh',
         NEW f \in Nat, f <= fresh',
         Safe(E, ctx[<<a, Ctrl>>], ToSet(net[<<Ctrl, a>>]) \cup ToSet(out), ToSet(net[<<a, Ctrl>>]),
              ToSet(s), ToSet(inst[<<a, Ctrl>>]), f)
  PROVE  Typed' /\ SInv'
<1>0. /\ <<Ctrl, a>> \in Links /\ <<a, Ctrl>> \in Links /\ <<Ctrl, a>> # <<a, Ctrl>>
      /\ \A b \in Agents \ {a} :
           /\ <<Ctrl, b>> \in Links \ {<<Ctrl, a>>, <<a, Ctrl>>}
           /\ <<b, Ctrl>> \in Links \ {<<Ctrl, a>>, <<a, Ctrl>>}
  BY LinkFacts
<1>1. /\ net' \in [Links -> Seq(Msgs)]
      /\ ToSet(net'[<<a, Ctrl>>]) \subseteq ToSet(net[<<a, Ctrl>>])
      /\ ToSet(net'[<<Ctrl, a>>]) = ToSet(net[<<Ctrl, a>>]) \cup ToSet(out)
      /\ \A l \in Links \ {<<a, Ctrl>>, <<Ctrl, a>>} : net'[l] = net[l]
  BY <1>0, AnswerNet
<1>2. /\ ctx' \in [Links -> Ctxs] /\ ctx'[<<Ctrl, a>>] = E
      /\ \A l \in Links \ {<<Ctrl, a>>} : ctx'[l] = ctx[l]
  BY <1>0 DEF Typed
<1>3. /\ inst' \in [Links -> Seq(SUBSET Nat)] /\ inst'[<<Ctrl, a>>] = s
      /\ \A l \in Links \ {<<Ctrl, a>>} : inst'[l] = inst[l]
  BY <1>0 DEF Typed
<1>4. Typed'
  BY <1>1, <1>2, <1>3 DEF Typed
<1>5. SafeAgent(a)'
  <2>1. ToSet(out) \subseteq Msgs
    BY SetOfSeq
  <2>2. ToSet(s) \in SUBSET (SUBSET Nat)
    BY SetOfSeq
  <2>3. Safe(E, ctx[<<a, Ctrl>>], ToSet(net'[<<Ctrl, a>>]), ToSet(net'[<<a, Ctrl>>]),
             ToSet(s), ToSet(inst[<<a, Ctrl>>]), fresh')
    <3>1. PICK R, U : /\ R = ToSet(net[<<Ctrl, a>>]) \cup ToSet(out)
                      /\ U = ToSet(net[<<a, Ctrl>>])
      OBVIOUS
    <3>2. R \in SUBSET Msgs /\ U \in SUBSET Msgs
      BY <2>1, <3>1, AgentTyped
    <3>3. ToSet(net'[<<Ctrl, a>>]) \in SUBSET R /\ ToSet(net'[<<a, Ctrl>>]) \in SUBSET U
      BY <1>1, <3>1
    <3>4. Safe(E, ctx[<<a, Ctrl>>], R, U, ToSet(s), ToSet(inst[<<a, Ctrl>>]), f)
      BY <3>1
    <3>5. PICK D, I, S, R2, U2, g : /\ D = ctx[<<a, Ctrl>>] /\ I = ToSet(inst[<<a, Ctrl>>]) /\ S = ToSet(s)
                                    /\ R2 = ToSet(net'[<<Ctrl, a>>]) /\ U2 = ToSet(net'[<<a, Ctrl>>])
                                    /\ g = fresh'
      OBVIOUS
    <3>6. /\ D \in Ctxs /\ I \in SUBSET (SUBSET Nat) /\ S \in SUBSET (SUBSET Nat)
          /\ R2 \in SUBSET R /\ U2 \in SUBSET U /\ g \in Nat /\ f <= g
      BY <2>2, <3>3, <3>5, AgentTyped
    <3>7. Safe(E, D, R, U, S, I, f)
      BY <3>4, <3>5
    <3>8. Safe(E, D, R2, U2, S, I, g)
      BY <3>2, <3>6, <3>7, SafeLess
    <3> QED BY <3>5, <3>8
  <2> QED BY <1>0, <1>2, <1>3, <2>3 DEF SafeAgent
<1>6. \A b \in Agents \ {a} : SafeAgent(b)'
  <2> SUFFICES ASSUME NEW b \in Agents \ {a} PROVE SafeAgent(b)'
    OBVIOUS
  <2>1. SafeAgent(b)
    BY DEF SInv
  <2>2. /\ ctx'[<<Ctrl, b>>] = ctx[<<Ctrl, b>>] /\ ctx'[<<b, Ctrl>>] = ctx[<<b, Ctrl>>]
        /\ inst'[<<Ctrl, b>>] = inst[<<Ctrl, b>>] /\ inst'[<<b, Ctrl>>] = inst[<<b, Ctrl>>]
        /\ net'[<<Ctrl, b>>] = net[<<Ctrl, b>>] /\ net'[<<b, Ctrl>>] = net[<<b, Ctrl>>]
    BY <1>0, <1>1, <1>2, <1>3
  <2> QED BY <2>1, <2>2, LessKeeps
<1>7. \A l \in Links : Distinct(inst'[l])
  BY <1>3 DEF SInv
<1> QED BY <1>4, <1>5, <1>6, <1>7 DEF SInv

\* Agent a has handled a message of the controller.
LEMMA DownDelivery ==
  ASSUME Typed, SInv, NEW a \in Agents,
         NEW i \in 1 .. Len(net[<<Ctrl, a>>]), NEW keep \in BOOLEAN, NEW out \in Seq(Msgs),
         Answer(a, Ctrl, Rest(Ctrl, a, i, keep), out),
         NEW E \in Ctxs, ctx' = [ctx EXCEPT ![<<a, Ctrl>>] = E],
         NEW s \in Seq(SUBSET Nat), inst' = [inst EXCEPT ![<<a, Ctrl>>] = s], Distinct(s),
         gtk' \in [Nodes -> Nat], gtkId' \in [Nodes -> Nat], trans' \in [Nodes -> Nat],
         \A b \in Agents : gtk'[b] = 0,
         fresh' \in Nat, fresh <= fresh',
         NEW f \in Nat, f <= fresh',
         Safe(ctx[<<Ctrl, a>>], E, ToSet(net[<<Ctrl, a>>]), ToSet(net[<<a, Ctrl>>]) \cup ToSet(out),
              ToSet(inst[<<Ctrl, a>>]), ToSet(s), f)
  PROVE  Typed' /\ SInv'
<1>0. /\ <<Ctrl, a>> \in Links /\ <<a, Ctrl>> \in Links /\ <<Ctrl, a>> # <<a, Ctrl>>
      /\ \A b \in Agents \ {a} :
           /\ <<Ctrl, b>> \in Links \ {<<Ctrl, a>>, <<a, Ctrl>>}
           /\ <<b, Ctrl>> \in Links \ {<<Ctrl, a>>, <<a, Ctrl>>}
  BY LinkFacts
<1>1. /\ net' \in [Links -> Seq(Msgs)]
      /\ ToSet(net'[<<Ctrl, a>>]) \subseteq ToSet(net[<<Ctrl, a>>])
      /\ ToSet(net'[<<a, Ctrl>>]) = ToSet(net[<<a, Ctrl>>]) \cup ToSet(out)
      /\ \A l \in Links \ {<<Ctrl, a>>, <<a, Ctrl>>} : net'[l] = net[l]
  BY <1>0, AnswerNet
<1>2. /\ ctx' \in [Links -> Ctxs] /\ ctx'[<<a, Ctrl>>] = E
      /\ \A l \in Links \ {<<a, Ctrl>>} : ctx'[l] = ctx[l]
  BY <1>0 DEF Typed
<1>3. /\ inst' \in [Links -> Seq(SUBSET Nat)] /\ inst'[<<a, Ctrl>>] = s
      /\ \A l \in Links \ {<<a, Ctrl>>} : inst'[l] = inst[l]
  BY <1>0 DEF Typed
<1>4. Typed'
  BY <1>1, <1>2, <1>3 DEF Typed
<1>5. SafeAgent(a)'
  <2>1. ToSet(out) \subseteq Msgs
    BY SetOfSeq
  <2>2. ToSet(s) \in SUBSET (SUBSET Nat)
    BY SetOfSeq
  <2>3. Safe(ctx[<<Ctrl, a>>], E, ToSet(net'[<<Ctrl, a>>]), ToSet(net'[<<a, Ctrl>>]),
             ToSet(inst[<<Ctrl, a>>]), ToSet(s), fresh')
    <3>1. PICK R, U : /\ R = ToSet(net[<<Ctrl, a>>])
                      /\ U = ToSet(net[<<a, Ctrl>>]) \cup ToSet(out)
      OBVIOUS
    <3>2. R \in SUBSET Msgs /\ U \in SUBSET Msgs
      BY <2>1, <3>1, AgentTyped
    <3>3. ToSet(net'[<<Ctrl, a>>]) \in SUBSET R /\ ToSet(net'[<<a, Ctrl>>]) \in SUBSET U
      BY <1>1, <3>1
    <3>4. Safe(ctx[<<Ctrl, a>>], E, R, U, ToSet(inst[<<Ctrl, a>>]), ToSet(s), f)
      BY <3>1
    <3>5. PICK D, I, S, R2, U2, g : /\ D = ctx[<<Ctrl, a>>] /\ I = ToSet(inst[<<Ctrl, a>>]) /\ S = ToSet(s)
                                    /\ R2 = ToSet(net'[<<Ctrl, a>>]) /\ U2 = ToSet(net'[<<a, Ctrl>>])
                                    /\ g = fresh'
      OBVIOUS
    <3>6. /\ D \in Ctxs /\ I \in SUBSET (SUBSET Nat) /\ S \in SUBSET (SUBSET Nat)
          /\ R2 \in SUBSET R /\ U2 \in SUBSET U /\ g \in Nat /\ f <= g
      BY <2>2, <3>3, <3>5, AgentTyped
    <3>7. Safe(D, E, R, U, I, S, f)
      BY <3>4, <3>5
    <3>8. Safe(D, E, R2, U2, I, S, g)
      BY <3>2, <3>6, <3>7, SafeLess
    <3> QED BY <3>5, <3>8
  <2> QED BY <1>0, <1>2, <1>3, <2>3 DEF SafeAgent
<1>6. \A b \in Agents \ {a} : SafeAgent(b)'
  <2> SUFFICES ASSUME NEW b \in Agents \ {a} PROVE SafeAgent(b)'
    OBVIOUS
  <2>1. SafeAgent(b)
    BY DEF SInv
  <2>2. /\ ctx'[<<Ctrl, b>>] = ctx[<<Ctrl, b>>] /\ ctx'[<<b, Ctrl>>] = ctx[<<b, Ctrl>>]
        /\ inst'[<<Ctrl, b>>] = inst[<<Ctrl, b>>] /\ inst'[<<b, Ctrl>>] = inst[<<b, Ctrl>>]
        /\ net'[<<Ctrl, b>>] = net[<<Ctrl, b>>] /\ net'[<<b, Ctrl>>] = net[<<b, Ctrl>>]
    BY <1>0, <1>1, <1>2, <1>3
  <2> QED BY <2>1, <2>2, LessKeeps
<1>7. \A l \in Links : Distinct(inst'[l])
  BY <1>3 DEF SInv
<1> QED BY <1>4, <1>5, <1>6, <1>7 DEF SInv

------------------------------------------------------------------------------
\* The handlers.

LEMMA Singles ==
  /\ << >> \in Seq(Msgs) /\ ToSet(<< >>) = {}
  /\ \A x \in Msgs : <<x>> \in Seq(Msgs) /\ ToSet(<<x>>) = {x}
  /\ \A x, y \in Msgs : <<x, y>> \in Seq(Msgs) /\ ToSet(<<x, y>>) = {x, y}
<1>1. << >> \in Seq(Msgs) /\ ToSet(<< >>) = {}
  BY DEF ToSet
<1>2. \A x \in Msgs : <<x>> \in Seq(Msgs) /\ ToSet(<<x>>) = {x}
  BY DEF ToSet
<1>3. \A x, y \in Msgs : <<x, y>> \in Seq(Msgs) /\ ToSet(<<x, y>>) = {x, y}
  <2> SUFFICES ASSUME NEW x \in Msgs, NEW y \in Msgs
               PROVE  <<x, y>> \in Seq(Msgs) /\ ToSet(<<x, y>>) = {x, y}
    OBVIOUS
  <2>1. <<x, y>> \in Seq(Msgs) /\ DOMAIN <<x, y>> = {1, 2} /\ <<x, y>>[1] = x /\ <<x, y>>[2] = y
    OBVIOUS
  <2> QED BY <2>1 DEF ToSet
<1> QED BY <1>1, <1>2, <1>3

LEMMA FrameTyped ==
  ASSUME NEW type \in {"pw", "group"}, NEW c \in Nat, NEW nonce \in Nat,
         NEW mic \in SUBSET (SUBSET Nat), NEW key \in Nat, NEW id \in Nat
  PROVE  LET x == Frame(type, c, nonce, mic, key, id) IN
           /\ x \in Msgs /\ x.type = type /\ x.ctr = c /\ x.nonce = nonce /\ x.mic = mic
  BY DEF Frame, Msgs, Frames

LEMMA DiscTyped ==
  ASSUME NEW type \in {"req", "resp"}, NEW id \in Nat
  PROVE  Disc(type, id) \in Msgs /\ Disc(type, id).type = type
  BY DEF Disc, Msgs, Discs

LEMMA MsgFields ==
  ASSUME NEW m \in Msgs
  PROVE  /\ m.type \in {"req", "resp", "pw", "group"}
         /\ m.type \in {"req", "resp"} => m.trans \in Nat
         /\ m.type \in {"pw", "group"} =>
              /\ m.ctr \in Nat /\ m.nonce \in Nat /\ m.mic \in SUBSET (SUBSET Nat)
              /\ m.key \in Nat /\ m.id \in Nat
  BY DEF Msgs, Discs, Frames

LEMMA NewCtxFacts ==
  /\ NoCtx \in Ctxs /\ NewCtx \in Ctxs
  /\ NewCtx.known /\ NewCtx.an = 0 /\ NewCtx.sn = 0 /\ NewCtx.ptk = {} /\ NewCtx.kck = {}
  /\ NewCtx.ctr = 0 /\ NewCtx.idx = 0
  /\ NoCtx.an = 0 /\ NoCtx.sn = 0 /\ NoCtx.kck = {} /\ NoCtx.idx = 0 /\ ~NoCtx.known
<1>1. /\ NoCtx \in Ctxs
      /\ NoCtx.an = 0 /\ NoCtx.sn = 0 /\ NoCtx.ptk = {} /\ NoCtx.kck = {} /\ NoCtx.ctr = 0
      /\ NoCtx.idx = 0 /\ ~NoCtx.known
  BY DEF NoCtx, Ctxs
<1>2. NewCtx \in Ctxs
  BY <1>1 DEF NewCtx, Ctxs
<1>3. /\ NewCtx.known /\ NewCtx.an = 0 /\ NewCtx.sn = 0 /\ NewCtx.ptk = {} /\ NewCtx.kck = {}
      /\ NewCtx.ctr = 0 /\ NewCtx.idx = 0
  BY <1>1 DEF NewCtx, Ctxs
<1> QED BY <1>1, <1>2, <1>3

LEMMA NextGtkIdTyped == ASSUME NEW id \in Nat PROVE NextGtkId(id) \in Nat
  BY DEF NextGtkId

LEMMA BeginFacts ==
  ASSUME NEW c \in Ctxs, fresh \in Nat
  PROVE  LET d == begin_1905_4way_handshake(c) IN
         /\ d \in Ctxs /\ d.known = c.known /\ d.an = fresh + 1 /\ d.sn = c.sn
         /\ d.kck = c.kck /\ d.ctr = c.ctr + 1 /\ d.idx = 1
<1>1. c.ctr + 1 \in Nat /\ fresh + 1 \in Nat /\ 1 \in 0 .. 4
  BY DEF Ctxs
<1>2. PICK t, v : t = c.ctr + 1 /\ v = fresh + 1
  OBVIOUS
<1>3. begin_1905_4way_handshake(c) = [c EXCEPT !.ctr = t, !.an = v, !.idx = 1]
  BY <1>2 DEF begin_1905_4way_handshake, Ctxs
<1>4. [c EXCEPT !.ctr = t, !.an = v, !.idx = 1] \in Ctxs
  BY <1>1, <1>2 DEF Ctxs
<1> QED BY <1>2, <1>3, <1>4 DEF Ctxs

\* The controller's handlers.
LEMMA UpIgnored ==
  ASSUME Typed, SInv, NEW a \in Agents,
         NEW i \in 1 .. Len(net[<<a, Ctrl>>]), NEW keep \in BOOLEAN,
         Answer(Ctrl, a, Rest(a, Ctrl, i, keep), << >>), UNCHANGED <<ctx, gtk, gtkId, trans, inst, fresh>>
  PROVE  Typed' /\ SInv'
<1>0. <<Ctrl, a>> \in Links
  BY LinkFacts
<1>1. /\ ctx' = [ctx EXCEPT ![<<Ctrl, a>>] = ctx[<<Ctrl, a>>]]
      /\ inst' = [inst EXCEPT ![<<Ctrl, a>>] = inst[<<Ctrl, a>>]]
      /\ ctx[<<Ctrl, a>>] \in Ctxs /\ inst[<<Ctrl, a>>] \in Seq(SUBSET Nat)
      /\ Distinct(inst[<<Ctrl, a>>]) /\ fresh' \in Nat /\ fresh <= fresh'
      /\ gtk' \in [Nodes -> Nat] /\ gtkId' \in [Nodes -> Nat] /\ trans' \in [Nodes -> Nat]
      /\ \A b \in Agents : gtk'[b] = gtk[b]
  BY <1>0 DEF Typed, SInv
<1>2. PICK R, out : R = ToSet(net[<<Ctrl, a>>]) /\ out = << >>
  OBVIOUS
<1>3. out \in Seq(Msgs) /\ R \cup ToSet(out) = R
  BY <1>2, Singles
<1>4. Safe(ctx[<<Ctrl, a>>], ctx[<<a, Ctrl>>], R \cup ToSet(out), ToSet(net[<<a, Ctrl>>]),
           ToSet(inst[<<Ctrl, a>>]), ToSet(inst[<<a, Ctrl>>]), fresh)
  BY <1>2, <1>3 DEF SInv, SafeAgent
<1> QED BY <1>1, <1>2, <1>3, <1>4, UpDelivery DEF Typed

LEMMA UpRequest ==
  ASSUME Typed, SInv, NEW a \in Agents,
         NEW i \in 1 .. Len(net[<<a, Ctrl>>]), NEW keep \in BOOLEAN, NEW m \in Msgs,
         handle_peer_disc_req_frame(Ctrl, a, m, Rest(a, Ctrl, i, keep))
  PROVE  Typed' /\ SInv'
<1> USE DEF handle_peer_disc_req_frame
<1>0. <<Ctrl, a>> \in Links /\ Ctrl \in Nodes /\ \A b \in Agents : b \in Nodes /\ b # Ctrl
  BY LinkFacts DEF Nodes
<1>1. PICK E : E = begin_1905_4way_handshake(NewCtx)
  OBVIOUS
<1>2. /\ E \in Ctxs /\ E.known /\ E.idx = 1 /\ E.an = fresh + 1 /\ E.sn = 0 /\ E.kck = {}
      /\ E.ctr \in Nat /\ fresh \in Nat
  <2>1. fresh \in Nat
    BY DEF Typed
  <2>2. NewCtx \in Ctxs /\ NewCtx.known /\ NewCtx.sn = 0 /\ NewCtx.kck = {} /\ NewCtx.ctr = 0
    BY NewCtxFacts
  <2>3. /\ E \in Ctxs /\ E.known = NewCtx.known /\ E.an = fresh + 1 /\ E.sn = NewCtx.sn
        /\ E.kck = NewCtx.kck /\ E.ctr = NewCtx.ctr + 1 /\ E.idx = 1
    BY <1>1, <2>1, <2>2, BeginFacts
  <2>4. E.ctr \in Nat
    BY <2>3 DEF Ctxs
  <2> QED BY <2>1, <2>2, <2>3, <2>4
<1>3. PICK x, y : x = Disc("resp", m.trans) /\ y = build_pw_eapol_frame_1(E)
  OBVIOUS
<1>4. m.type = "req" /\ m.trans \in Nat
  BY MsgFields
<1>5. /\ x \in Msgs /\ x.type = "resp"
      /\ y \in Msgs /\ y.type = "pw" /\ y.nonce = fresh + 1 /\ y.ctr = E.ctr /\ y.mic = {}
  BY <1>2, <1>3, <1>4, DiscTyped, FrameTyped DEF build_pw_eapol_frame_1
<1>6. PICK out : out = <<x, y>>
  OBVIOUS
<1>7. out \in Seq(Msgs) /\ ToSet(out) = {x, y}
  BY <1>5, <1>6, Singles
<1>8. Answer(Ctrl, a, Rest(a, Ctrl, i, keep), out) /\ ctx' = [ctx EXCEPT ![<<Ctrl, a>>] = E]
  BY <1>1, <1>3, <1>6
<1>9. PICK s : s = inst[<<Ctrl, a>>]
  OBVIOUS
<1>10. s \in Seq(SUBSET Nat) /\ inst' = [inst EXCEPT ![<<Ctrl, a>>] = s] /\ Distinct(s)
  BY <1>0, <1>9 DEF Typed, SInv
<1>11. /\ gtk' \in [Nodes -> Nat] /\ gtkId' \in [Nodes -> Nat]
       /\ fresh' \in Nat /\ fresh <= fresh' /\ fresh + 1 \in Nat /\ fresh + 1 <= fresh'
       /\ \A b \in Agents : gtk'[b] = gtk[b]
  <2>1. fresh \in Nat /\ gtk \in [Nodes -> Nat] /\ gtkId \in [Nodes -> Nat] /\ gtkId[Ctrl] \in Nat
    BY <1>0 DEF Typed
  <2>2. NextGtkId(gtkId[Ctrl]) \in Nat /\ fresh + 2 \in Nat
    <3>1. NextGtkId(gtkId[Ctrl]) \in Nat
      BY <2>1, NextGtkIdTyped
    <3>2. fresh + 2 \in Nat
      BY <2>1
    <3> QED BY <3>1, <3>2
  <2>3. fresh' \in {fresh + 1, fresh + 2}
    OBVIOUS
  <2>4. fresh' \in Nat /\ fresh <= fresh' /\ fresh + 1 \in Nat /\ fresh + 1 <= fresh'
    BY <2>1, <2>3
  <2>5. /\ gtk' = gtk \/ gtk' = [gtk EXCEPT ![Ctrl] = fresh + 2]
        /\ gtkId' = gtkId \/ gtkId' = [gtkId EXCEPT ![Ctrl] = NextGtkId(gtkId[Ctrl])]
    OBVIOUS
  <2>6. gtk' \in [Nodes -> Nat] /\ \A b \in Agents : gtk'[b] = gtk[b]
    BY <1>0, <2>1, <2>2, <2>5
  <2>7. gtkId' \in [Nodes -> Nat]
    BY <1>0, <2>1, <2>2, <2>5
  <2> QED BY <2>4, <2>6, <2>7
<1>12. trans' \in [Nodes -> Nat]
  BY SMTT(30), <1>0 DEF Typed
<1>13. Safe(E, ctx[<<a, Ctrl>>], ToSet(net[<<Ctrl, a>>]) \cup ToSet(out), ToSet(net[<<a, Ctrl>>]),
            ToSet(s), ToSet(inst[<<a, Ctrl>>]), fresh + 1)
  <2>1. PICK C, D, R, U, IC, IA, N :
          /\ C = ctx[<<Ctrl, a>>] /\ D = ctx[<<a, Ctrl>>]
          /\ R = ToSet(net[<<Ctrl, a>>]) /\ U = ToSet(net[<<a, Ctrl>>])
          /\ IC = ToSet(inst[<<Ctrl, a>>]) /\ IA = ToSet(inst[<<a, Ctrl>>]) /\ N = {x, y}
    OBVIOUS
  <2>2. /\ C \in Ctxs /\ D \in Ctxs /\ R \in SUBSET Msgs /\ U \in SUBSET Msgs
        /\ IC \in SUBSET (SUBSET Nat) /\ IA \in SUBSET (SUBSET Nat)
    BY <2>1, AgentTyped
  <2>3. Safe(C, D, R, U, IC, IA, fresh)
    BY <2>1 DEF SInv, SafeAgent
  <2>4. /\ N \in SUBSET Msgs /\ \A z \in N : z.type # "req"
        /\ \A z \in Pw(N) : z.nonce = fresh + 1 /\ z.ctr = E.ctr /\ z.mic = {}
    BY <1>5, <2>1 DEF Pw
  <2>5. E.sn <= fresh /\ \A k \in E.kck : k <= fresh
    BY <1>2
  <2>6. Safe(E, D, R \cup N, U, IC, IA, fresh + 1)
    BY <1>2, <2>2, <2>3, <2>4, <2>5, SafeBegin
  <2> QED BY <1>7, <1>9, <2>1, <2>6
<1> QED BY <1>2, <1>7, <1>8, <1>10, <1>11, <1>12, <1>13, UpDelivery

LEMMA UpFrame2 ==
  ASSUME Typed, SInv, NEW a \in Agents,
         NEW i \in 1 .. Len(net[<<a, Ctrl>>]), NEW keep \in BOOLEAN,
         NEW m \in ToSet(net[<<a, Ctrl>>]), m.type = "pw",
         ctx[<<Ctrl, a>>].known, ctx[<<Ctrl, a>>].idx = 1,
         handle_pw_eapol_frame_2(Ctrl, a, m, Rest(a, Ctrl, i, keep))
  PROVE  Typed' /\ SInv'
<1>0. <<Ctrl, a>> \in Links /\ Ctrl \in Nodes
  BY LinkFacts DEF Nodes
<1>1. PICK C, D, R, U, IC, IA, s :
        /\ C = ctx[<<Ctrl, a>>] /\ D = ctx[<<a, Ctrl>>]
        /\ R = ToSet(net[<<Ctrl, a>>]) /\ U = ToSet(net[<<a, Ctrl>>])
        /\ IC = ToSet(inst[<<Ctrl, a>>]) /\ IA = ToSet(inst[<<a, Ctrl>>]) /\ s = inst[<<Ctrl, a>>]
  OBVIOUS
<1>2. /\ C \in Ctxs /\ D \in Ctxs /\ R \in SUBSET Msgs /\ U \in SUBSET Msgs
      /\ IC \in SUBSET (SUBSET Nat) /\ IA \in SUBSET (SUBSET Nat) /\ fresh \in Nat
  BY <1>1, AgentTyped DEF Typed
<1>3. Safe(C, D, R, U, IC, IA, fresh) /\ C.known /\ C.idx = 1
  BY <1>1 DEF SInv, SafeAgent
<1>4. s \in Seq(SUBSET Nat) /\ Distinct(s)
  BY <1>0, <1>1 DEF Typed, SInv
<1>5. m \in Pw(U) /\ m \in Msgs /\ m.nonce \in Nat /\ m.nonce <= fresh /\ m.mic \in SUBSET (SUBSET Nat)
  BY <1>1, <1>2, <1>3, MsgFields DEF Pw, Safe, Drawn, NetDrawn
<1>6. CASE m.ctr # C.ctr \/ m.nonce = 0
  <2>1. Answer(Ctrl, a, Rest(a, Ctrl, i, keep), << >>) /\ UNCHANGED <<ctx, gtk, gtkId, trans, inst, fresh>>
    BY <1>1, <1>6 DEF handle_pw_eapol_frame_2
  <2> QED BY <2>1, UpIgnored
<1>7. CASE m.ctr = C.ctr /\ m.nonce # 0
  <2> DEFINE d == [[C EXCEPT !.sn = m.nonce] EXCEPT
                     !.ptk = compute_ptk([C EXCEPT !.sn = m.nonce]),
                     !.kck = compute_ptk([C EXCEPT !.sn = m.nonce])]
             e == [d EXCEPT !.ctr = @ + 1]
             g == [e EXCEPT !.idx = IF gtk[Ctrl] = 0 THEN @ ELSE 3]
  <2>1. /\ d \in Ctxs /\ d.known /\ d.idx = 1 /\ d.an = C.an /\ d.ctr = C.ctr /\ d.sn = m.nonce
        /\ d.ptk = {C.an, m.nonce} /\ d.kck = {C.an, m.nonce}
    BY <1>2, <1>3, <1>5 DEF compute_ptk, Ctxs
  <2>2. /\ e \in Ctxs /\ e.known /\ e.idx = 1 /\ e.an = C.an /\ e.ctr = C.ctr + 1 /\ e.sn = m.nonce
        /\ e.ptk = {C.an, m.nonce} /\ e.kck = {C.an, m.nonce}
    <3> HIDE DEF d
    <3> QED BY SMTT(30), <1>2, <2>1 DEF Ctxs
  <2>3. /\ g \in Ctxs /\ g.known /\ g.idx = (IF gtk[Ctrl] = 0 THEN 1 ELSE 3) /\ g.an = C.an
        /\ g.ctr = C.ctr + 1 /\ g.sn = m.nonce
        /\ g.ptk = {C.an, m.nonce} /\ g.kck = {C.an, m.nonce}
    <3> HIDE DEF e
    <3> QED BY <2>2 DEF Ctxs
  <2>4. UNCHANGED <<gtk, gtkId, trans, inst, fresh>>
    BY DEF handle_pw_eapol_frame_2
  <2>5. /\ gtk' \in [Nodes -> Nat] /\ gtkId' \in [Nodes -> Nat] /\ trans' \in [Nodes -> Nat]
        /\ \A b \in Agents : gtk'[b] = gtk[b]
        /\ fresh' \in Nat /\ fresh <= fresh' /\ inst' = [inst EXCEPT ![<<Ctrl, a>>] = s]
        /\ gtk[Ctrl] \in Nat /\ gtkId[Ctrl] \in Nat
    BY <1>0, <1>1, <2>4 DEF Typed
  <2>6. CASE ~verify_mic(d, m)
    <3>1. ctx' = [ctx EXCEPT ![<<Ctrl, a>>] = d] /\ Answer(Ctrl, a, Rest(a, Ctrl, i, keep), << >>)
      BY <1>1, <1>7, <2>6 DEF handle_pw_eapol_frame_2
    <3> HIDE DEF d
    <3>2. Safe(d, D, R, U, IC, IA, fresh)
      BY <1>2, <1>3, <1>5, <2>1, SafeFrame2Wrong
    <3>3. PICK out : out = << >>
      OBVIOUS
    <3>4. out \in Seq(Msgs) /\ R \cup ToSet(out) = R
      BY <3>3, Singles
    <3>5. Safe(d, ctx[<<a, Ctrl>>], ToSet(net[<<Ctrl, a>>]) \cup ToSet(out), ToSet(net[<<a, Ctrl>>]),
               ToSet(s), ToSet(inst[<<a, Ctrl>>]), fresh)
      BY <1>1, <3>2, <3>4
    <3> QED BY <1>2, <1>4, <2>1, <2>4, <2>5, <3>1, <3>3, <3>4, <3>5, UpDelivery
  <2>7. CASE verify_mic(d, m)
    <3> DEFINE x == build_pw_eapol_frame_3(e, gtk[Ctrl], gtkId[Ctrl])
    <3>1. /\ ctx' = [ctx EXCEPT ![<<Ctrl, a>>] = g]
          /\ Answer(Ctrl, a, Rest(a, Ctrl, i, keep), IF gtk[Ctrl] = 0 THEN << >> ELSE <<x>>)
      BY <1>1, <1>7, <2>7 DEF handle_pw_eapol_frame_2
    <3>2. m.mic = {{C.an, m.nonce}}
      BY <2>1, <2>7 DEF verify_mic
    <3> HIDE DEF d, e
    <3>3. /\ x \in Msgs /\ x.type = "pw" /\ x.ctr = C.ctr + 1 /\ x.nonce = C.an
          /\ x.mic = {{C.an, m.nonce}}
      <4>1. C.ctr + 1 \in Nat /\ C.an \in Nat
        BY <1>2 DEF Ctxs
      <4>2. {{C.an, m.nonce}} \in SUBSET (SUBSET Nat)
        BY <1>5, <4>1
      <4>3. gtkId[Ctrl] % 4 \in Nat
        BY <2>5
      <4>4. PICK c, v, K, q : c = C.ctr + 1 /\ v = C.an /\ K = {{C.an, m.nonce}} /\ q = gtkId[Ctrl] % 4
        OBVIOUS
      <4>5. x = Frame("pw", c, v, K, gtk[Ctrl], q)
        BY <2>2, <4>4 DEF build_pw_eapol_frame_3
      <4>6. x \in Msgs /\ x.type = "pw" /\ x.ctr = c /\ x.nonce = v /\ x.mic = K
        <5>1. c \in Nat /\ v \in Nat /\ K \in SUBSET (SUBSET Nat) /\ q \in Nat /\ gtk[Ctrl] \in Nat
          BY <2>5, <4>1, <4>2, <4>3, <4>4
        <5> QED BY <4>5, <5>1, FrameTyped
      <4> QED BY <4>4, <4>6
    <3> HIDE DEF g, x
    <3>4. PICK N : N = {x}
      OBVIOUS
    <3>5. /\ N \in SUBSET Msgs
          /\ \A y \in N : y.type = "pw" /\ y.ctr = g.ctr /\ y.nonce = C.an /\ y.mic = {g.kck}
      BY <2>3, <3>3, <3>4
    <3>6. Safe(g, D, R \cup (IF g.idx = 1 THEN {} ELSE N), U, IC, IA, fresh)
      <4>1. g.idx \in {1, 3}
        BY <2>3
      <4>2. /\ g \in Ctxs /\ g.known /\ g.an = C.an /\ g.ctr = C.ctr + 1 /\ g.sn = m.nonce
            /\ g.ptk = {C.an, m.nonce} /\ g.kck = {C.an, m.nonce}
        BY <2>3
      <4>3. m \in Pw(U) /\ m.ctr = C.ctr /\ m.nonce # 0
        BY <1>5, <1>7
      <4>4. PICK G : G = g
        OBVIOUS
      <4>5. Safe(G, D, R \cup (IF G.idx = 1 THEN {} ELSE N), U, IC, IA, fresh)
        BY <1>2, <1>3, <3>2, <3>5, <4>1, <4>2, <4>3, <4>4, SafeFrame2
      <4> QED BY <4>4, <4>5
    <3>7. PICK out : out = IF gtk[Ctrl] = 0 THEN << >> ELSE <<x>>
      OBVIOUS
    <3>8. out \in Seq(Msgs) /\ ToSet(out) = IF g.idx = 1 THEN {} ELSE N
      <4>1. CASE gtk[Ctrl] = 0
        BY <2>3, <3>7, <4>1, Singles
      <4>2. CASE gtk[Ctrl] # 0
        <5>1. g.idx = 3 /\ out = <<x>>
          BY <2>3, <3>7, <4>2
        <5> QED BY <3>3, <3>4, <5>1, Singles
      <4> QED BY <4>1, <4>2
    <3>9. Safe(g, ctx[<<a, Ctrl>>], ToSet(net[<<Ctrl, a>>]) \cup ToSet(out), ToSet(net[<<a, Ctrl>>]),
               ToSet(s), ToSet(inst[<<a, Ctrl>>]), fresh)
      BY <1>1, <3>6, <3>8
    <3> QED BY <1>2, <1>4, <2>3, <2>4, <2>5, <3>1, <3>7, <3>8, <3>9, UpDelivery
  <2> QED BY <2>6, <2>7
<1> QED BY <1>6, <1>7

LEMMA UpFrame4 ==
  ASSUME Typed, SInv, NEW a \in Agents,
         NEW i \in 1 .. Len(net[<<a, Ctrl>>]), NEW keep \in BOOLEAN,
         NEW m \in ToSet(net[<<a, Ctrl>>]), m.type = "pw",
         ctx[<<Ctrl, a>>].known, ctx[<<Ctrl, a>>].idx = 3,
         handle_pw_eapol_frame_4(Ctrl, a, m, Rest(a, Ctrl, i, keep))
  PROVE  Typed' /\ SInv'
<1>0. <<Ctrl, a>> \in Links /\ Ctrl \in Nodes
  BY LinkFacts DEF Nodes
<1>1. PICK C, D, R, U, IC, IA, s :
        /\ C = ctx[<<Ctrl, a>>] /\ D = ctx[<<a, Ctrl>>]
        /\ R = ToSet(net[<<Ctrl, a>>]) /\ U = ToSet(net[<<a, Ctrl>>])
        /\ IC = ToSet(inst[<<Ctrl, a>>]) /\ IA = ToSet(inst[<<a, Ctrl>>]) /\ s = inst[<<Ctrl, a>>]
  OBVIOUS
<1>2. /\ C \in Ctxs /\ D \in Ctxs /\ R \in SUBSET Msgs /\ U \in SUBSET Msgs
      /\ IC \in SUBSET (SUBSET Nat) /\ IA \in SUBSET (SUBSET Nat) /\ fresh \in Nat
  BY <1>1, AgentTyped DEF Typed
<1>3. Safe(C, D, R, U, IC, IA, fresh) /\ C.known /\ C.idx = 3
  BY <1>1 DEF SInv, SafeAgent
<1>4. s \in Seq(SUBSET Nat) /\ Distinct(s)
  BY <1>0, <1>1 DEF Typed, SInv
<1>5. m \in Pw(U)
  BY <1>1 DEF Pw
<1>6. Answer(Ctrl, a, Rest(a, Ctrl, i, keep), << >>) /\ UNCHANGED <<gtk, gtkId, trans, fresh>>
  BY DEF handle_pw_eapol_frame_4
<1>7. CASE m.ctr # C.ctr \/ ~verify_mic(C, m)
  <2>1. UNCHANGED <<ctx, inst>>
    BY <1>1, <1>7 DEF handle_pw_eapol_frame_4
  <2> QED BY <1>6, <2>1, UpIgnored
<1>8. CASE m.ctr = C.ctr /\ verify_mic(C, m)
  <2> DEFINE E == [C EXCEPT !.ctr = @ + 1, !.ptk = {}]
             t == Append(s, C.ptk)
  <2>1. ctx' = [ctx EXCEPT ![<<Ctrl, a>>] = E] /\ inst' = [inst EXCEPT ![<<Ctrl, a>>] = t]
    BY <1>1, <1>8 DEF handle_pw_eapol_frame_4
  <2>2. /\ E \in Ctxs /\ E.known /\ E.idx = 3 /\ E.an = C.an /\ E.sn = C.sn /\ E.kck = C.kck
        /\ E.ctr = C.ctr + 1
    <3>1. C.ctr + 1 \in Nat
      BY <1>2 DEF Ctxs
    <3>2. PICK v : v = C.ctr + 1
      OBVIOUS
    <3>3. E = [C EXCEPT !.ctr = v, !.ptk = {}]
      BY <3>2
    <3>4. E \in Ctxs
      BY <1>2, <3>1, <3>2, <3>3 DEF Ctxs
    <3> QED BY <1>2, <1>3, <3>2, <3>3, <3>4 DEF Ctxs
  <2> HIDE DEF E
  <2>3. C.ptk \notin IC /\ Safe(E, D, R, U, IC \cup {C.ptk}, IA, fresh)
    BY <1>2, <1>3, <1>5, <1>8, <2>2, SafeFrame4 DEF verify_mic
  <2>4. t \in Seq(SUBSET Nat) /\ Distinct(t) /\ ToSet(t) = IC \cup {C.ptk}
    <3>1. C.ptk \in SUBSET Nat
      BY <1>2 DEF Ctxs
    <3> QED BY SMTT(30), <1>1, <1>4, <2>3, <3>1, DistinctAppend
  <2> HIDE DEF t
  <2>5. PICK out : out = << >>
    OBVIOUS
  <2>6. out \in Seq(Msgs) /\ R \cup ToSet(out) = R
    BY <2>5, Singles
  <2>7. Safe(E, ctx[<<a, Ctrl>>], ToSet(net[<<Ctrl, a>>]) \cup ToSet(out), ToSet(net[<<a, Ctrl>>]),
             ToSet(t), ToSet(inst[<<a, Ctrl>>]), fresh)
    BY <1>1, <2>3, <2>4, <2>6
  <2>8. /\ gtk' \in [Nodes -> Nat] /\ gtkId' \in [Nodes -> Nat] /\ trans' \in [Nodes -> Nat]
        /\ \A b \in Agents : gtk'[b] = gtk[b]
        /\ fresh' \in Nat /\ fresh <= fresh'
    BY <1>6 DEF Typed
  <2> QED BY <1>2, <1>6, <2>1, <2>2, <2>4, <2>5, <2>6, <2>7, <2>8, UpDelivery
<1> QED BY <1>7, <1>8

LEMMA UpDeliver ==
  ASSUME Typed, SInv, NEW a \in Agents, Deliver(a, Ctrl)
  PROVE  Typed' /\ SInv'
<1>0. <<Ctrl, a>> \in Links /\ <<a, Ctrl>> \in Links
  BY LinkFacts
<1>1. PICK i \in 1 .. Len(net[<<a, Ctrl>>]), keep \in BOOLEAN :
        LET m == net[<<a, Ctrl>>][i]
            rest == Rest(a, Ctrl, i, keep)
        IN  \/ handle_peer_disc_req_frame(Ctrl, a, m, rest)
            \/ handle_peer_disc_resp_frame(Ctrl, a, m, rest)
            \/ handle_eapol_frame(Ctrl, a, m, rest)
  BY DEF Deliver
<1>2. PICK m : m = net[<<a, Ctrl>>][i]
  OBVIOUS
<1>3. m \in ToSet(net[<<a, Ctrl>>]) /\ m \in Msgs
  <2>1. net[<<a, Ctrl>>] \in Seq(Msgs)
    BY <1>0 DEF Typed
  <2> QED BY <1>2, <2>1, SetOfSeq
<1>4. Safe(ctx[<<Ctrl, a>>], ctx[<<a, Ctrl>>], ToSet(net[<<Ctrl, a>>]), ToSet(net[<<a, Ctrl>>]),
           ToSet(inst[<<Ctrl, a>>]), ToSet(inst[<<a, Ctrl>>]), fresh)
  BY DEF SInv, SafeAgent
<1>5. m.type \notin {"resp", "group"}
  BY <1>3, <1>4 DEF Safe, Roles
<1>6. CASE handle_peer_disc_req_frame(Ctrl, a, m, Rest(a, Ctrl, i, keep))
  BY <1>3, <1>6, UpRequest
<1>7. CASE handle_eapol_frame(Ctrl, a, m, Rest(a, Ctrl, i, keep))
  <2>1. m.type = "pw"
    BY <1>5, <1>7 DEF handle_eapol_frame
  <2>2. CASE ~ctx[<<Ctrl, a>>].known
    <3>1. Answer(Ctrl, a, Rest(a, Ctrl, i, keep), << >>) /\ UNCHANGED <<ctx, gtk, gtkId, trans, inst, fresh>>
      BY <1>7, <2>2 DEF handle_eapol_frame, keys
    <3> QED BY <3>1, UpIgnored
  <2>3. CASE ctx[<<Ctrl, a>>].known
    <3>1. ctx[<<Ctrl, a>>].idx \in {1, 3}
      BY <1>4, <2>3 DEF Safe, Roles
    <3>2. CASE ctx[<<Ctrl, a>>].idx = 1
      <4>1. handle_pw_eapol_frame_2(Ctrl, a, m, Rest(a, Ctrl, i, keep))
        BY <1>7, <2>1, <2>3, <3>2 DEF handle_eapol_frame
      <4> QED BY <1>3, <2>1, <2>3, <3>2, <4>1, UpFrame2
    <3>3. CASE ctx[<<Ctrl, a>>].idx = 3
      <4>1. handle_pw_eapol_frame_4(Ctrl, a, m, Rest(a, Ctrl, i, keep))
        BY <1>7, <2>1, <2>3, <3>3 DEF handle_eapol_frame
      <4> QED BY <1>3, <2>1, <2>3, <3>3, <4>1, UpFrame4
    <3> QED BY <3>1, <3>2, <3>3
  <2> QED BY <2>2, <2>3
<1> QED BY <1>1, <1>2, <1>5, <1>6, <1>7 DEF handle_peer_disc_resp_frame

\* The agent's handlers.
LEMMA DownQuiet ==
  ASSUME Typed, SInv, NEW a \in Agents,
         NEW i \in 1 .. Len(net[<<Ctrl, a>>]), NEW keep \in BOOLEAN,
         Answer(a, Ctrl, Rest(Ctrl, a, i, keep), << >>), UNCHANGED <<gtk, gtkId, trans, inst, fresh>>,
         NEW E \in Ctxs, ctx' = [ctx EXCEPT ![<<a, Ctrl>>] = E],
         Safe(ctx[<<Ctrl, a>>], E, ToSet(net[<<Ctrl, a>>]), ToSet(net[<<a, Ctrl>>]),
              ToSet(inst[<<Ctrl, a>>]), ToSet(inst[<<a, Ctrl>>]), fresh)
  PROVE  Typed' /\ SInv'
<1>0. <<a, Ctrl>> \in Links
  BY LinkFacts
<1>1. /\ inst' = [inst EXCEPT ![<<a, Ctrl>>] = inst[<<a, Ctrl>>]]
      /\ inst[<<a, Ctrl>>] \in Seq(SUBSET Nat)
      /\ Distinct(inst[<<a, Ctrl>>]) /\ fresh' \in Nat /\ fresh <= fresh'
      /\ gtk' \in [Nodes -> Nat] /\ gtkId' \in [Nodes -> Nat] /\ trans' \in [Nodes -> Nat]
      /\ \A b \in Agents : gtk'[b] = 0
  BY <1>0 DEF Typed, SInv
<1>2. PICK U, out : U = ToSet(net[<<a, Ctrl>>]) /\ out = << >>
  OBVIOUS
<1>3. out \in Seq(Msgs) /\ U \cup ToSet(out) = U
  BY <1>2, Singles
<1>4. Safe(ctx[<<Ctrl, a>>], E, ToSet(net[<<Ctrl, a>>]), U \cup ToSet(out),
           ToSet(inst[<<Ctrl, a>>]), ToSet(inst[<<a, Ctrl>>]), fresh)
  BY <1>2, <1>3
<1> QED BY <1>1, <1>2, <1>3, <1>4, DownDelivery DEF Typed

LEMMA DownIgnored ==
  ASSUME Typed, SInv, NEW a \in Agents,
         NEW i \in 1 .. Len(net[<<Ctrl, a>>]), NEW keep \in BOOLEAN,
         Answer(a, Ctrl, Rest(Ctrl, a, i, keep), << >>), UNCHANGED <<ctx, gtk, gtkId, trans, inst, fresh>>
  PROVE  Typed' /\ SInv'
<1>0. <<a, Ctrl>> \in Links
  BY LinkFacts
<1>1. PICK E : E = ctx[<<a, Ctrl>>]
  OBVIOUS
<1>2. E \in Ctxs /\ ctx' = [ctx EXCEPT ![<<a, Ctrl>>] = E]
  BY <1>0, <1>1 DEF Typed
<1>3. Safe(ctx[<<Ctrl, a>>], E, ToSet(net[<<Ctrl, a>>]), ToSet(net[<<a, Ctrl>>]),
           ToSet(inst[<<Ctrl, a>>]), ToSet(inst[<<a, Ctrl>>]), fresh)
  BY <1>1 DEF SInv, SafeAgent
<1> QED BY <1>2, <1>3, DownQuiet

\* The agent changes only its context, in which no handshake can end.
LEMMA DownContext ==
  ASSUME Typed, SInv, NEW a \in Agents,
         NEW i \in 1 .. Len(net[<<Ctrl, a>>]), NEW keep \in BOOLEAN,
         Answer(a, Ctrl, Rest(Ctrl, a, i, keep), << >>), UNCHANGED <<gtk, gtkId, trans, inst, fresh>>,
         NEW E \in Ctxs, ctx' = [ctx EXCEPT ![<<a, Ctrl>>] = E],
         E.an <= fresh, E.sn <= fresh, \A k \in E.kck : k <= fresh,
         \/ E.idx = 1
         \/ E.idx = 0 /\ E.an = 0 /\ E.sn = 0 /\ E.kck = {}
         \/ E.idx = 2 /\ E.an = 0
  PROVE  Typed' /\ SInv'
<1>1. PICK C, D, R, U, IC, IA :
        /\ C = ctx[<<Ctrl, a>>] /\ D = ctx[<<a, Ctrl>>]
        /\ R = ToSet(net[<<Ctrl, a>>]) /\ U = ToSet(net[<<a, Ctrl>>])
        /\ IC = ToSet(inst[<<Ctrl, a>>]) /\ IA = ToSet(inst[<<a, Ctrl>>])
  OBVIOUS
<1>2. /\ C \in Ctxs /\ D \in Ctxs /\ R \in SUBSET Msgs /\ U \in SUBSET Msgs
      /\ IC \in SUBSET (SUBSET Nat) /\ IA \in SUBSET (SUBSET Nat) /\ fresh \in Nat
  BY <1>1, AgentTyped DEF Typed
<1>3. Safe(C, D, R, U, IC, IA, fresh)
  BY <1>1 DEF SInv, SafeAgent
<1>4. Safe(C, E, R, U, IC, IA, fresh)
  BY <1>2, <1>3, SafeContext
<1>5. Safe(ctx[<<Ctrl, a>>], E, ToSet(net[<<Ctrl, a>>]), ToSet(net[<<a, Ctrl>>]),
           ToSet(inst[<<Ctrl, a>>]), ToSet(inst[<<a, Ctrl>>]), fresh)
  BY <1>1, <1>4
<1> QED BY <1>5, DownQuiet

\* A counter taken from a frame that is not accepted.
LEMMA DownCounter ==
  ASSUME Typed, SInv, NEW a \in Agents,
         NEW i \in 1 .. Len(net[<<Ctrl, a>>]), NEW keep \in BOOLEAN,
         Answer(a, Ctrl, Rest(Ctrl, a, i, keep), << >>), UNCHANGED <<gtk, gtkId, trans, inst, fresh>>,
         ctx[<<a, Ctrl>>].idx = 0,
         NEW t \in Nat, ctx' = [ctx EXCEPT ![<<a, Ctrl>>] = [ctx[<<a, Ctrl>>] EXCEPT !.ctr = t]]
  PROVE  Typed' /\ SInv'
<1>1. PICK D : D = ctx[<<a, Ctrl>>]
  OBVIOUS
<1>2. D \in Ctxs /\ fresh \in Nat
  BY <1>1, AgentTyped DEF Typed
<1>3. D.idx = 0 /\ D.an = 0 /\ D.sn = 0 /\ D.kck = {}
  BY <1>1 DEF SInv, SafeAgent, Safe, Supplicant
<1>4. PICK E : E = [D EXCEPT !.ctr = t]
  OBVIOUS
<1>5. E \in Ctxs /\ E.idx = 0 /\ E.an = 0 /\ E.sn = 0 /\ E.kck = {}
  BY <1>2, <1>3, <1>4 DEF Ctxs
<1>6. ctx' = [ctx EXCEPT ![<<a, Ctrl>>] = E]
  BY <1>1, <1>4
<1>7. E.an <= fresh /\ E.sn <= fresh /\ \A k \in E.kck : k <= fresh
  BY <1>2, <1>5
<1> QED BY <1>5, <1>6, <1>7, DownContext

LEMMA DownResponse ==
  ASSUME Typed, SInv, NEW a \in Agents,
         NEW i \in 1 .. Len(net[<<Ctrl, a>>]), NEW keep \in BOOLEAN, NEW m,
         handle_peer_disc_resp_frame(a, Ctrl, m, Rest(Ctrl, a, i, keep))
  PROVE  Typed' /\ SInv'
<1>1. /\ Answer(a, Ctrl, Rest(Ctrl, a, i, keep), << >>)
      /\ UNCHANGED <<gtk, gtkId, trans, inst, fresh>>
      /\ ctx' = ctx \/ ctx' = [ctx EXCEPT ![<<a, Ctrl>>] = NewCtx]
  BY DEF handle_peer_disc_resp_frame
<1>2. CASE ctx' = ctx
  BY <1>1, <1>2, DownIgnored
<1>3. CASE ctx' = [ctx EXCEPT ![<<a, Ctrl>>] = NewCtx]
  <2>1. PICK E : E = NewCtx
    OBVIOUS
  <2>2. E \in Ctxs /\ E.idx = 0 /\ E.an = 0 /\ E.sn = 0 /\ E.kck = {}
    BY <2>1, NewCtxFacts
  <2>3. fresh \in Nat
    BY DEF Typed
  <2>4. E.an <= fresh /\ E.sn <= fresh /\ \A k \in E.kck : k <= fresh
    BY <2>2, <2>3
  <2> QED BY <1>1, <1>3, <2>1, <2>2, <2>4, DownContext
<1> QED BY <1>1, <1>2, <1>3

LEMMA DownFrame1 ==
  ASSUME Typed, SInv, NEW a \in Agents,
         NEW i \in 1 .. Len(net[<<Ctrl, a>>]), NEW keep \in BOOLEAN,
         NEW m \in ToSet(net[<<Ctrl, a>>]), m.type = "pw", ctx[<<a, Ctrl>>].idx = 0,
         handle_pw_eapol_frame_1(a, Ctrl, m, Rest(Ctrl, a, i, keep))
  PROVE  Typed' /\ SInv'
<1>0. <<a, Ctrl>> \in Links
  BY LinkFacts
<1>1. PICK C, D, R, U, IC, IA, s, f :
        /\ C = ctx[<<Ctrl, a>>] /\ D = ctx[<<a, Ctrl>>]
        /\ R = ToSet(net[<<Ctrl, a>>]) /\ U = ToSet(net[<<a, Ctrl>>])
        /\ IC = ToSet(inst[<<Ctrl, a>>]) /\ IA = ToSet(inst[<<a, Ctrl>>]) /\ s = inst[<<a, Ctrl>>]
        /\ f = fresh
  OBVIOUS
<1>2. /\ C \in Ctxs /\ D \in Ctxs /\ R \in SUBSET Msgs /\ U \in SUBSET Msgs
      /\ IC \in SUBSET (SUBSET Nat) /\ IA \in SUBSET (SUBSET Nat) /\ f \in Nat
  BY <1>1, AgentTyped DEF Typed
<1>3. Safe(C, D, R, U, IC, IA, f) /\ D.idx = 0
  BY <1>1 DEF SInv, SafeAgent
<1>4. s \in Seq(SUBSET Nat) /\ Distinct(s)
  BY <1>0, <1>1 DEF Typed, SInv
<1>5. m \in Pw(R) /\ m \in Msgs /\ m.nonce \in Nat /\ m.ctr \in Nat
  BY <1>1, <1>2, MsgFields DEF Pw
<1>6. UNCHANGED <<gtk, gtkId, trans, inst>>
  BY DEF handle_pw_eapol_frame_1
<1>7. CASE m.ctr <= D.ctr \/ m.nonce = 0
  <2>1. PICK t : t = IF m.ctr > D.ctr THEN m.ctr ELSE D.ctr
    OBVIOUS
  <2>2. t \in Nat
    BY <1>2, <1>5, <2>1 DEF Ctxs
  <2>3. /\ Answer(a, Ctrl, Rest(Ctrl, a, i, keep), << >>) /\ UNCHANGED fresh
        /\ ctx' = [ctx EXCEPT ![<<a, Ctrl>>].ctr = IF m.ctr > @ THEN m.ctr ELSE @]
    BY <1>1, <1>2, <1>5, <1>7 DEF handle_pw_eapol_frame_1, Ctxs
  <2>4. ctx' = [ctx EXCEPT ![<<a, Ctrl>>] = [ctx[<<a, Ctrl>>] EXCEPT !.ctr = t]]
    BY <1>0, <1>1, <2>1, <2>3 DEF Typed
  <2> QED BY <1>1, <1>3, <1>6, <2>2, <2>3, <2>4, DownCounter
<1>8. CASE m.ctr > D.ctr /\ m.nonce # 0
  <2>1. D.sn = 0
    BY <1>3 DEF Safe, Supplicant
  <2>2. PICK w, K : w = f + 1 /\ K = {m.nonce, w}
    OBVIOUS
  <2>3. w \in Nat /\ K \in SUBSET Nat /\ f <= w
    BY <1>2, <1>5, <2>2
  <2>4. PICK E0 : E0 = [D EXCEPT !.ctr = m.ctr, !.an = m.nonce, !.sn = w]
    OBVIOUS
  <2>5. /\ E0 \in Ctxs /\ E0.an = m.nonce /\ E0.sn = w /\ E0.ctr = m.ctr
    BY <1>2, <1>5, <2>3, <2>4 DEF Ctxs
  <2>6. PICK E : E = [E0 EXCEPT !.ptk = K, !.kck = K, !.idx = 2]
    OBVIOUS
  <2>7. /\ E \in Ctxs /\ E.an = m.nonce /\ E.sn = w /\ E.ctr = m.ctr
        /\ E.ptk = K /\ E.kck = K /\ E.idx = 2
    <3>1. PICK e : e = [E0 EXCEPT !.ptk = K, !.kck = K]
      OBVIOUS
    <3>2. e \in Ctxs /\ e.an = m.nonce /\ e.sn = w /\ e.ctr = m.ctr /\ e.ptk = K /\ e.kck = K
      BY <2>3, <2>5, <3>1 DEF Ctxs
    <3>3. E = [e EXCEPT !.idx = 2]
      BY <2>5, <2>6, <3>1 DEF Ctxs
    <3>4. 2 \in 0 .. 4
      OBVIOUS
    <3> QED BY <3>2, <3>3, <3>4 DEF Ctxs
  <2>8. PICK x : x = build_pw_eapol_frame_2(E)
    OBVIOUS
  <2>9. /\ ctx' = [ctx EXCEPT ![<<a, Ctrl>>] = E] /\ fresh' = w
        /\ Answer(a, Ctrl, Rest(Ctrl, a, i, keep), <<x>>)
    <3>1. E0 = [D EXCEPT !.ctr = m.ctr, !.an = m.nonce, !.sn = IF @ = 0 THEN f + 1 ELSE @]
      BY <1>2, <2>1, <2>2, <2>4 DEF Ctxs
    <3>2. E = [E0 EXCEPT !.ptk = compute_ptk(E0), !.kck = compute_ptk(E0), !.idx = 2]
      BY <2>2, <2>5, <2>6 DEF compute_ptk
    <3>3. ~(m.ctr <= D.ctr \/ m.nonce = 0)
      BY <1>2, <1>5, <1>8 DEF Ctxs
    <3> QED BY <1>1, <2>1, <2>2, <2>8, <3>1, <3>2, <3>3 DEF handle_pw_eapol_frame_1
  <2>10. x \in Msgs /\ x.type = "pw" /\ x.ctr = m.ctr /\ x.nonce = w /\ x.mic = {K}
    <3>1. {K} \in SUBSET (SUBSET Nat)
      BY <2>3
    <3>2. x = Frame("pw", m.ctr, w, {K}, 0, 0)
      BY <2>7, <2>8 DEF build_pw_eapol_frame_2
    <3> QED BY <1>5, <2>3, <3>1, <3>2, FrameTyped
  <2>11. Safe(C, E, R, U \cup {x}, IC, IA, w)
    <3>1. /\ E.an = m.nonce /\ E.sn = f + 1 /\ E.ptk = {m.nonce, f + 1} /\ E.kck = {m.nonce, f + 1}
          /\ x.nonce = f + 1 /\ x.mic = {{m.nonce, f + 1}}
      BY <2>2, <2>7, <2>10
    <3>2. Safe(C, E, R, U \cup {x}, IC, IA, f + 1)
      BY <1>2, <1>3, <1>5, <2>7, <2>10, <3>1, SafeFrame1
    <3> QED BY <2>2, <3>2
  <2>12. PICK out : out = <<x>>
    OBVIOUS
  <2>13. out \in Seq(Msgs) /\ ToSet(out) = {x}
    BY <2>10, <2>12, Singles
  <2>14. Safe(ctx[<<Ctrl, a>>], E, ToSet(net[<<Ctrl, a>>]), ToSet(net[<<a, Ctrl>>]) \cup ToSet(out),
              ToSet(inst[<<Ctrl, a>>]), ToSet(s), w)
    BY <1>1, <2>11, <2>13
  <2>15. /\ gtk' \in [Nodes -> Nat] /\ gtkId' \in [Nodes -> Nat] /\ trans' \in [Nodes -> Nat]
         /\ \A b \in Agents : gtk'[b] = 0
         /\ inst' = [inst EXCEPT ![<<a, Ctrl>>] = s]
    BY <1>0, <1>1, <1>6 DEF Typed, SInv
  <2>16. fresh' \in Nat /\ fresh <= fresh' /\ w <= fresh'
    BY <1>1, <2>3, <2>9
  <2>17. Answer(a, Ctrl, Rest(Ctrl, a, i, keep), out)
    BY <2>9, <2>12
  <2> QED BY <1>4, <2>3, <2>7, <2>9, <2>13, <2>14, <2>15, <2>16, <2>17, DownDelivery
<1>9. m.ctr <= D.ctr \/ m.ctr > D.ctr
  BY <1>2, <1>5 DEF Ctxs
<1> QED BY <1>7, <1>8, <1>9

\* An agent that has begun a handshake of its own takes any frame for frame 2;
\* without a GTK it sends no frame 3.
LEMMA DownFrame2 ==
  ASSUME Typed, SInv, NEW a \in Agents,
         NEW i \in 1 .. Len(net[<<Ctrl, a>>]), NEW keep \in BOOLEAN,
         NEW m \in ToSet(net[<<Ctrl, a>>]), m.type = "pw", ctx[<<a, Ctrl>>].idx = 1,
         handle_pw_eapol_frame_2(a, Ctrl, m, Rest(Ctrl, a, i, keep))
  PROVE  Typed' /\ SInv'
<1>1. PICK D, R : D = ctx[<<a, Ctrl>>] /\ R = ToSet(net[<<Ctrl, a>>])
  OBVIOUS
<1>2. D \in Ctxs /\ R \in SUBSET Msgs /\ fresh \in Nat
  BY <1>1, AgentTyped DEF Typed
<1>3. D.idx = 1 /\ D.an <= fresh /\ gtk[a] = 0
  BY <1>1 DEF SInv, SafeAgent, Safe, Drawn, CtxDrawn
<1>4. m \in Pw(R) /\ m \in Msgs /\ m.nonce \in Nat /\ m.ctr \in Nat /\ m.nonce <= fresh
  BY <1>1, <1>2, MsgFields DEF Pw, SInv, SafeAgent, Safe, Drawn, NetDrawn
<1>5. UNCHANGED <<gtk, gtkId, trans, inst, fresh>>
  BY DEF handle_pw_eapol_frame_2
<1>6. PICK K, t : K = {D.an, m.nonce} /\ t = D.ctr + 1
  OBVIOUS
<1>7. K \in SUBSET Nat /\ t \in Nat /\ \A k \in K : k <= fresh
  BY <1>2, <1>3, <1>4, <1>6 DEF Ctxs
<1>8. PICK E0 : E0 = [D EXCEPT !.sn = m.nonce]
  OBVIOUS
<1>9. /\ E0 \in Ctxs /\ E0.an = D.an /\ E0.sn = m.nonce /\ E0.ctr = D.ctr /\ E0.idx = 1
  BY <1>2, <1>3, <1>4, <1>8 DEF Ctxs
<1>10. PICK E1 : E1 = [E0 EXCEPT !.ptk = K, !.kck = K]
  OBVIOUS
<1>11. /\ E1 \in Ctxs /\ E1.an = D.an /\ E1.sn = m.nonce /\ E1.kck = K /\ E1.ctr = D.ctr /\ E1.idx = 1
  BY <1>7, <1>9, <1>10 DEF Ctxs
<1>12. PICK E2 : E2 = [E1 EXCEPT !.ctr = t]
  OBVIOUS
<1>13. /\ E2 \in Ctxs /\ E2.an = D.an /\ E2.sn = m.nonce /\ E2.kck = K /\ E2.idx = 1
  BY <1>7, <1>11, <1>12 DEF Ctxs
<1>14. [E2 EXCEPT !.idx = IF gtk[a] = 0 THEN @ ELSE 3] = E2
  BY <1>3, <1>13 DEF Ctxs
<1>15. /\ Answer(a, Ctrl, Rest(Ctrl, a, i, keep), << >>)
       /\ \/ ctx' = ctx
          \/ ctx' = [ctx EXCEPT ![<<a, Ctrl>>] = E1]
          \/ ctx' = [ctx EXCEPT ![<<a, Ctrl>>] = E2]
  <2>1. E1 = [E0 EXCEPT !.ptk = compute_ptk(E0), !.kck = compute_ptk(E0)]
    BY <1>6, <1>9, <1>10 DEF compute_ptk
  <2>2. E2 = [E1 EXCEPT !.ctr = @ + 1]
    BY <1>6, <1>11, <1>12 DEF Ctxs
  <2> QED BY <1>1, <1>3, <1>8, <1>14, <2>1, <2>2 DEF handle_pw_eapol_frame_2
<1>16. ASSUME NEW E \in Ctxs, E.an = D.an, E.sn = m.nonce, E.kck = K, E.idx = 1,
              ctx' = [ctx EXCEPT ![<<a, Ctrl>>] = E]
       PROVE  Typed' /\ SInv'
  <2>1. E.an <= fresh /\ E.sn <= fresh /\ \A k \in E.kck : k <= fresh
    BY <1>3, <1>4, <1>7, <1>16
  <2> QED BY <1>5, <1>15, <1>16, <2>1, DownContext
<1>17. CASE ctx' = ctx
  BY <1>5, <1>15, <1>17, DownIgnored
<1> QED BY <1>11, <1>13, <1>15, <1>16, <1>17

LEMMA DownFrame3 ==
  ASSUME Typed, SInv, NEW a \in Agents,
         NEW i \in 1 .. Len(net[<<Ctrl, a>>]), NEW keep \in BOOLEAN,
         NEW m \in ToSet(net[<<Ctrl, a>>]), m.type = "pw", ctx[<<a, Ctrl>>].idx = 2,
         handle_pw_eapol_frame_3(a, Ctrl, m, Rest(Ctrl, a, i, keep))
  PROVE  Typed' /\ SInv'
<1>0. <<a, Ctrl>> \in Links /\ a \in Nodes
  BY LinkFacts DEF Nodes
<1>1. PICK C, D, R, U, IC, IA, s :
        /\ C = ctx[<<Ctrl, a>>] /\ D = ctx[<<a, Ctrl>>]
        /\ R = ToSet(net[<<Ctrl, a>>]) /\ U = ToSet(net[<<a, Ctrl>>])
        /\ IC = ToSet(inst[<<Ctrl, a>>]) /\ IA = ToSet(inst[<<a, Ctrl>>]) /\ s = inst[<<a, Ctrl>>]
  OBVIOUS
<1>2. /\ C \in Ctxs /\ D \in Ctxs /\ R \in SUBSET Msgs /\ U \in SUBSET Msgs
      /\ IC \in SUBSET (SUBSET Nat) /\ IA \in SUBSET (SUBSET Nat) /\ fresh \in Nat
  BY <1>1, AgentTyped DEF Typed
<1>3. Safe(C, D, R, U, IC, IA, fresh) /\ D.idx = 2
  BY <1>1 DEF SInv, SafeAgent
<1>4. s \in Seq(SUBSET Nat) /\ Distinct(s)
  BY <1>0, <1>1 DEF Typed, SInv
<1>5. m \in Pw(R) /\ m \in Msgs /\ m.nonce \in Nat /\ m.ctr \in Nat /\ m.id \in Nat
  BY <1>1, <1>2, MsgFields DEF Pw
<1>6. CASE Answer(a, Ctrl, Rest(Ctrl, a, i, keep), << >>) /\ UNCHANGED keys
  <2>1. UNCHANGED <<ctx, gtk, gtkId, trans, inst, fresh>>
    BY <1>6 DEF keys
  <2> QED BY <1>6, <2>1, DownIgnored
<1>7. CASE /\ m.nonce = D.an
           /\ ctx' = [ctx EXCEPT ![<<a, Ctrl>>] = [D EXCEPT !.ctr = m.ctr, !.idx = 4, !.ptk = {}]]
           /\ inst' = [inst EXCEPT ![<<a, Ctrl>>] = Append(s, D.ptk)]
           /\ gtk' = [gtk EXCEPT ![a] = 0]
           /\ gtkId' = [gtkId EXCEPT ![a] = m.id]
           /\ Answer(a, Ctrl, Rest(Ctrl, a, i, keep),
                     <<build_pw_eapol_frame_4([D EXCEPT !.ctr = m.ctr])>>)
           /\ UNCHANGED <<trans, fresh>>
  <2>1. PICK E, t, d, x : /\ E = [D EXCEPT !.ctr = m.ctr, !.idx = 4, !.ptk = {}]
                          /\ t = Append(s, D.ptk)
                          /\ d = [D EXCEPT !.ctr = m.ctr]
                          /\ x = build_pw_eapol_frame_4([D EXCEPT !.ctr = m.ctr])
    OBVIOUS
  <2>2. E \in Ctxs /\ E.idx = 4 /\ E.an = D.an /\ E.sn = D.sn /\ E.kck = D.kck
    <3>1. 4 \in 0 .. 4
      OBVIOUS
    <3>2. PICK e : e = [D EXCEPT !.ctr = m.ctr, !.ptk = {}]
      OBVIOUS
    <3>3. e \in Ctxs /\ e.an = D.an /\ e.sn = D.sn /\ e.kck = D.kck
      BY <1>2, <1>5, <3>2 DEF Ctxs
    <3>4. E = [e EXCEPT !.idx = 4]
      BY <1>2, <2>1, <3>2 DEF Ctxs
    <3> QED BY <3>1, <3>3, <3>4 DEF Ctxs
  <2>3. x \in Msgs /\ x.type = "pw" /\ x.ctr = m.ctr /\ x.nonce = 0 /\ x.mic = {D.kck}
    <3>1. d.ctr = m.ctr /\ d.kck = D.kck /\ D.kck \in SUBSET Nat
      BY <1>2, <1>5, <2>1 DEF Ctxs
    <3>2. {D.kck} \in SUBSET (SUBSET Nat)
      BY <3>1
    <3>3. x = Frame("pw", m.ctr, 0, {D.kck}, 0, 0)
      BY <2>1, <3>1 DEF build_pw_eapol_frame_4
    <3> QED BY <1>5, <3>2, <3>3, FrameTyped
  <2>4. D.ptk \notin IA /\ Safe(C, E, R, U \cup {x}, IC, IA \cup {D.ptk}, fresh)
    BY <1>2, <1>3, <1>5, <1>7, <2>2, <2>3, SafeFrame3
  <2>5. t \in Seq(SUBSET Nat) /\ Distinct(t) /\ ToSet(t) = IA \cup {D.ptk}
    <3>1. D.ptk \in SUBSET Nat
      BY <1>2 DEF Ctxs
    <3>2. D.ptk \notin ToSet(s) /\ ToSet(s) = IA
      BY <1>1, <2>4
    <3> QED BY <1>4, <2>1, <3>1, <3>2, DistinctAppend
  <2>6. PICK out : out = <<x>>
    OBVIOUS
  <2>7. out \in Seq(Msgs) /\ ToSet(out) = {x}
    BY <2>3, <2>6, Singles
  <2>8. Safe(ctx[<<Ctrl, a>>], E, ToSet(net[<<Ctrl, a>>]), ToSet(net[<<a, Ctrl>>]) \cup ToSet(out),
             ToSet(inst[<<Ctrl, a>>]), ToSet(t), fresh)
    BY <1>1, <2>4, <2>5, <2>7
  <2>9. /\ gtk' \in [Nodes -> Nat] /\ gtkId' \in [Nodes -> Nat] /\ trans' \in [Nodes -> Nat]
        /\ \A b \in Agents : gtk'[b] = 0
    BY <1>0, <1>5, <1>7 DEF Typed, SInv
  <2>10. fresh' \in Nat /\ fresh <= fresh'
    BY <1>2, <1>7
  <2>11. /\ Answer(a, Ctrl, Rest(Ctrl, a, i, keep), out)
         /\ ctx' = [ctx EXCEPT ![<<a, Ctrl>>] = E] /\ inst' = [inst EXCEPT ![<<a, Ctrl>>] = t]
    BY <1>7, <2>1, <2>6
  <2>12. fresh' = fresh
    BY <1>7
  <2> QED BY <1>2, <2>2, <2>5, <2>7, <2>8, <2>9, <2>10, <2>11, <2>12, DownDelivery
<1> QED BY <1>1, <1>6, <1>7 DEF handle_pw_eapol_frame_3

LEMMA DownGroup ==
  ASSUME Typed, SInv, NEW a \in Agents,
         NEW i \in 1 .. Len(net[<<Ctrl, a>>]), NEW keep \in BOOLEAN,
         NEW m \in ToSet(net[<<Ctrl, a>>]), m.type = "group", ctx[<<a, Ctrl>>].idx = 0,
         handle_group_eapol_frame_1(a, Ctrl, m, Rest(Ctrl, a, i, keep))
  PROVE  Typed' /\ SInv'
<1>0. <<a, Ctrl>> \in Links /\ a \in Nodes
  BY LinkFacts DEF Nodes
<1>1. PICK C, D, R, U, IC, IA, s :
        /\ C = ctx[<<Ctrl, a>>] /\ D = ctx[<<a, Ctrl>>]
        /\ R = ToSet(net[<<Ctrl, a>>]) /\ U = ToSet(net[<<a, Ctrl>>])
        /\ IC = ToSet(inst[<<Ctrl, a>>]) /\ IA = ToSet(inst[<<a, Ctrl>>]) /\ s = inst[<<a, Ctrl>>]
  OBVIOUS
<1>2. /\ C \in Ctxs /\ D \in Ctxs /\ R \in SUBSET Msgs /\ U \in SUBSET Msgs
      /\ IC \in SUBSET (SUBSET Nat) /\ IA \in SUBSET (SUBSET Nat) /\ fresh \in Nat
  BY <1>1, AgentTyped DEF Typed
<1>3. Safe(C, D, R, U, IC, IA, fresh) /\ D.idx = 0
  BY <1>1 DEF SInv, SafeAgent
<1>4. s \in Seq(SUBSET Nat) /\ Distinct(s)
  BY <1>0, <1>1 DEF Typed, SInv
<1>5. m \in Msgs /\ m.ctr \in Nat /\ m.id \in Nat
  BY <1>1, <1>2, MsgFields
<1>6. CASE Answer(a, Ctrl, Rest(Ctrl, a, i, keep), << >>) /\ UNCHANGED keys
  <2>1. UNCHANGED <<ctx, gtk, gtkId, trans, inst, fresh>>
    BY <1>6 DEF keys
  <2> QED BY <1>6, <2>1, DownIgnored
<1>7. CASE /\ ctx' = [ctx EXCEPT ![<<a, Ctrl>>].ctr = m.ctr]
           /\ Answer(a, Ctrl, Rest(Ctrl, a, i, keep), << >>)
           /\ UNCHANGED <<gtk, gtkId, trans, inst, fresh>>
  <2>1. ctx' = [ctx EXCEPT ![<<a, Ctrl>>] = [ctx[<<a, Ctrl>>] EXCEPT !.ctr = m.ctr]]
    BY <1>0, <1>7 DEF Typed
  <2> QED BY <1>1, <1>3, <1>5, <1>7, <2>1, DownCounter
<1>8. CASE /\ ctx' = [ctx EXCEPT ![<<a, Ctrl>>] = [D EXCEPT !.ctr = m.ctr + 1, !.idx = 2]]
           /\ gtk' = [gtk EXCEPT ![a] = 0]
           /\ gtkId' = [gtkId EXCEPT ![a] = m.id]
           /\ Answer(a, Ctrl, Rest(Ctrl, a, i, keep),
                     <<build_group_eapol_frame_2([D EXCEPT !.ctr = m.ctr])>>)
           /\ UNCHANGED <<trans, inst, fresh>>
  <2>1. PICK E, d, x, v : /\ E = [D EXCEPT !.ctr = v, !.idx = 2]
                          /\ d = [D EXCEPT !.ctr = m.ctr]
                          /\ x = build_group_eapol_frame_2([D EXCEPT !.ctr = m.ctr])
                          /\ v = m.ctr + 1
    OBVIOUS
  <2>2. D.an = 0 /\ D.sn = 0 /\ D.kck = {}
    BY <1>3 DEF Safe, Supplicant
  <2>3. E \in Ctxs /\ E.idx = 2 /\ E.an = 0 /\ E.sn = 0 /\ E.kck = {}
    <3>1. v \in Nat /\ 2 \in 0 .. 4
      BY <1>5, <2>1
    <3> QED BY <1>2, <2>1, <2>2, <3>1 DEF Ctxs
  <2>4. x \in Msgs /\ x.type = "pw" /\ x.nonce = 0 /\ x.mic = {{}}
    <3>1. d.ctr = m.ctr /\ d.kck = {}
      BY <1>2, <2>1, <2>2 DEF Ctxs
    <3>2. {{}} \in SUBSET (SUBSET Nat)
      OBVIOUS
    <3>3. x = Frame("pw", m.ctr, 0, {{}}, 0, 0)
      BY <2>1, <3>1 DEF build_group_eapol_frame_2
    <3> QED BY <1>5, <3>2, <3>3, FrameTyped
  <2>5. 0 <= fresh
    BY <1>2
  <2>6. Safe(C, E, R, U, IC, IA, fresh)
    <3>1. E.an <= fresh /\ E.sn <= fresh /\ \A k \in E.kck : k <= fresh
      BY <2>3, <2>5
    <3> QED BY <1>2, <1>3, <2>3, <3>1, SafeContext
  <2>7. Safe(C, E, R, U \cup {x}, IC, IA, fresh)
    <3>1. x.nonce <= fresh /\ \A K \in x.mic : K = {}
      BY <2>4, <2>5
    <3> QED BY <1>2, <2>3, <2>4, <2>6, <3>1, SafeSend
  <2>8. PICK out : out = <<x>>
    OBVIOUS
  <2>9. out \in Seq(Msgs) /\ ToSet(out) = {x}
    BY <2>4, <2>8, Singles
  <2>10. Safe(ctx[<<Ctrl, a>>], E, ToSet(net[<<Ctrl, a>>]), ToSet(net[<<a, Ctrl>>]) \cup ToSet(out),
              ToSet(inst[<<Ctrl, a>>]), ToSet(s), fresh)
    BY <1>1, <2>7, <2>9
  <2>11. /\ gtk' \in [Nodes -> Nat] /\ gtkId' \in [Nodes -> Nat] /\ trans' \in [Nodes -> Nat]
         /\ \A b \in Agents : gtk'[b] = 0
    BY <1>0, <1>5, <1>8 DEF Typed, SInv
  <2>12. fresh' \in Nat /\ fresh <= fresh' /\ fresh' = fresh
    BY <1>2, <1>8
  <2>13. /\ Answer(a, Ctrl, Rest(Ctrl, a, i, keep), out)
         /\ ctx' = [ctx EXCEPT ![<<a, Ctrl>>] = E] /\ inst' = [inst EXCEPT ![<<a, Ctrl>>] = s]
    BY <1>0, <1>1, <1>8, <2>1, <2>8 DEF Typed
  <2> QED BY <1>2, <1>4, <2>3, <2>9, <2>10, <2>11, <2>12, <2>13, DownDelivery
<1> QED BY <1>1, <1>6, <1>7, <1>8 DEF handle_group_eapol_frame_1

LEMMA DownDeliver ==
  ASSUME Typed, SInv, NEW a \in Agents, Deliver(Ctrl, a)
  PROVE  Typed' /\ SInv'
<1>0. <<Ctrl, a>> \in Links /\ <<a, Ctrl>> \in Links
  BY LinkFacts
<1>1. PICK i \in 1 .. Len(net[<<Ctrl, a>>]), keep \in BOOLEAN :
        LET m == net[<<Ctrl, a>>][i]
            rest == Rest(Ctrl, a, i, keep)
        IN  \/ handle_peer_disc_req_frame(a, Ctrl, m, rest)
            \/ handle_peer_disc_resp_frame(a, Ctrl, m, rest)
            \/ handle_eapol_frame(a, Ctrl, m, rest)
  BY DEF Deliver
<1>2. PICK m : m = net[<<Ctrl, a>>][i]
  OBVIOUS
<1>3. m \in ToSet(net[<<Ctrl, a>>]) /\ m \in Msgs
  <2>1. net[<<Ctrl, a>>] \in Seq(Msgs)
    BY <1>0 DEF Typed
  <2> QED BY <1>2, <2>1, SetOfSeq
<1>4. Safe(ctx[<<Ctrl, a>>], ctx[<<a, Ctrl>>], ToSet(net[<<Ctrl, a>>]), ToSet(net[<<a, Ctrl>>]),
           ToSet(inst[<<Ctrl, a>>]), ToSet(inst[<<a, Ctrl>>]), fresh)
  BY DEF SInv, SafeAgent
<1>5. m.type # "req"
  BY <1>3, <1>4 DEF Safe, Roles
<1>6. CASE handle_peer_disc_resp_frame(a, Ctrl, m, Rest(Ctrl, a, i, keep))
  BY <1>6, DownResponse
<1>7. CASE handle_eapol_frame(a, Ctrl, m, Rest(Ctrl, a, i, keep))
  <2>1. m.type \in {"pw", "group"}
    BY <1>7 DEF handle_eapol_frame
  <2>2. CASE Answer(a, Ctrl, Rest(Ctrl, a, i, keep), << >>) /\ UNCHANGED keys
    <3>1. UNCHANGED <<ctx, gtk, gtkId, trans, inst, fresh>>
      BY <2>2 DEF keys
    <3> QED BY <2>2, <3>1, DownIgnored
  <2>3. CASE m.type = "group" /\ ctx[<<a, Ctrl>>].idx = 0
             /\ handle_group_eapol_frame_1(a, Ctrl, m, Rest(Ctrl, a, i, keep))
    BY <1>3, <2>3, DownGroup
  <2>4. CASE m.type = "pw" /\ ctx[<<a, Ctrl>>].idx = 0
             /\ handle_pw_eapol_frame_1(a, Ctrl, m, Rest(Ctrl, a, i, keep))
    BY <1>3, <2>4, DownFrame1
  <2>5. CASE m.type = "pw" /\ ctx[<<a, Ctrl>>].idx = 1
             /\ handle_pw_eapol_frame_2(a, Ctrl, m, Rest(Ctrl, a, i, keep))
    BY <1>3, <2>5, DownFrame2
  <2>6. CASE m.type = "pw" /\ ctx[<<a, Ctrl>>].idx = 2
             /\ handle_pw_eapol_frame_3(a, Ctrl, m, Rest(Ctrl, a, i, keep))
    BY <1>3, <2>6, DownFrame3
  <2>7. ctx[<<a, Ctrl>>].idx # 3
    BY <1>4 DEF Safe, Roles
  <2> QED BY <1>7, <2>2, <2>3, <2>4, <2>5, <2>6, <2>7
          DEF handle_eapol_frame, handle_group_eapol_frame_2
<1> QED BY <1>1, <1>2, <1>5, <1>6, <1>7 DEF handle_peer_disc_req_frame

------------------------------------------------------------------------------
\* The other steps.

LEMMA Losing ==
  ASSUME Typed, SInv, NEW l \in Links, Lose(l[1], l[2])
  PROVE  Typed' /\ SInv'
<1>1. <<l[1], l[2]>> = l
  BY DEF Links
<1>2. PICK s : s = Tail(net[l])
  OBVIOUS
<1>3. /\ net' = [net EXCEPT ![l] = s] /\ net[l] # << >>
      /\ UNCHANGED <<ctx, gtk, gtkId, trans, inst, fresh>>
  BY <1>1, <1>2 DEF Lose, keys
<1>4. net[l] \in Seq(Msgs)
  BY DEF Typed
<1>5. s \in Seq(Msgs) /\ ToSet(s) \subseteq ToSet(net[l])
  <2>1. PICK q : q = net[l]
    OBVIOUS
  <2>2. q \in Seq(Msgs) /\ q # << >> /\ s = Tail(q)
    BY <1>2, <1>3, <1>4, <2>1
  <2>3. /\ s \in Seq(Msgs) /\ Len(s) = Len(q) - 1 /\ Len(q) \in Nat
        /\ \A i \in 1 .. Len(s) : s[i] = q[i + 1]
    BY <2>2, HeadTailProperties, LenProperties
  <2>4. \A i \in 1 .. Len(s) : i + 1 \in 1 .. Len(q)
    BY <2>3
  <2>5. ToSet(s) = {s[i] : i \in 1 .. Len(s)} /\ ToSet(q) = {q[i] : i \in 1 .. Len(q)}
    <3>1. s \in Seq(Msgs) /\ q \in Seq(Msgs)
      BY <2>2, <2>3
    <3> QED BY <3>1, SetOfSeq
  <2>6. \A x \in ToSet(s) : x \in ToSet(q)
    BY <2>3, <2>4, <2>5
  <2> QED BY <2>1, <2>3, <2>6
<1>6. net' \in [Links -> Seq(Msgs)] /\ \A k \in Links : ToSet(net'[k]) \subseteq ToSet(net[k])
  BY <1>3, <1>5 DEF Typed
<1>7. Typed'
  BY <1>3, <1>6 DEF Typed
<1>8. ASSUME NEW b \in Agents PROVE SafeAgent(b)'
  <2>1. <<Ctrl, b>> \in Links /\ <<b, Ctrl>> \in Links /\ fresh' \in Nat /\ fresh <= fresh'
    BY <1>3, LinkFacts DEF Typed
  <2> QED BY <1>3, <1>6, <2>1, LessKeeps DEF SInv
<1> QED BY <1>3, <1>7, <1>8 DEF SInv

LEMMA Starting ==
  ASSUME Typed, SInv, NEW a \in Agents, start_secure_1905_layer(a)
  PROVE  Typed' /\ SInv'
<1>0. <<a, Ctrl>> \in Links /\ <<Ctrl, a>> \in Links /\ <<Ctrl, a>> # <<a, Ctrl>> /\ a \in Nodes
  BY LinkFacts DEF Nodes
<1>1. PICK x, s : x = Disc("req", trans[a]) /\ s = Append(net[<<a, Ctrl>>], x)
  OBVIOUS
<1>2. /\ net' = [net EXCEPT ![<<a, Ctrl>>] = s]
      /\ UNCHANGED <<ctx, gtk, gtkId, trans, inst, fresh>>
  BY <1>1 DEF start_secure_1905_layer, keys
<1>3. x \in Msgs /\ x.type = "req"
  <2>1. trans[a] \in Nat
    BY <1>0 DEF Typed
  <2> QED BY <1>1, <2>1, DiscTyped
<1>4. s \in Seq(Msgs) /\ ToSet(s) = ToSet(net[<<a, Ctrl>>]) \cup {x}
  <2>1. net[<<a, Ctrl>>] \in Seq(Msgs)
    BY <1>0 DEF Typed
  <2> QED BY <1>1, <1>3, <2>1, SetOfAppend
<1>5. /\ net' \in [Links -> Seq(Msgs)] /\ net'[<<a, Ctrl>>] = s
      /\ \A k \in Links \ {<<a, Ctrl>>} : net'[k] = net[k]
  BY <1>0, <1>2, <1>4 DEF Typed
<1>6. Typed'
  BY <1>2, <1>5 DEF Typed
<1>7. ASSUME NEW b \in Agents PROVE SafeAgent(b)'
  <2>1. CASE b # a
    <3>1. /\ <<Ctrl, b>> \in Links \ {<<a, Ctrl>>} /\ <<b, Ctrl>> \in Links \ {<<a, Ctrl>>}
          /\ fresh' \in Nat /\ fresh <= fresh'
      BY <1>2, <2>1, LinkFacts DEF Typed
    <3>2. /\ ToSet(net'[<<Ctrl, b>>]) \subseteq ToSet(net[<<Ctrl, b>>])
          /\ ToSet(net'[<<b, Ctrl>>]) \subseteq ToSet(net[<<b, Ctrl>>])
      BY <1>5, <3>1
    <3> QED BY <1>2, <3>1, <3>2, LessKeeps DEF SInv
  <2>2. CASE b = a
    <3>1. PICK C, D, R, U, IC, IA :
            /\ C = ctx[<<Ctrl, a>>] /\ D = ctx[<<a, Ctrl>>]
            /\ R = ToSet(net[<<Ctrl, a>>]) /\ U = ToSet(net[<<a, Ctrl>>])
            /\ IC = ToSet(inst[<<Ctrl, a>>]) /\ IA = ToSet(inst[<<a, Ctrl>>])
      OBVIOUS
    <3>2. /\ C \in Ctxs /\ D \in Ctxs /\ R \in SUBSET Msgs /\ U \in SUBSET Msgs
          /\ IC \in SUBSET (SUBSET Nat) /\ IA \in SUBSET (SUBSET Nat) /\ fresh \in Nat
      BY <3>1, AgentTyped DEF Typed
    <3>3. Safe(C, D, R, U, IC, IA, fresh)
      BY <3>1 DEF SInv, SafeAgent
    <3>4. Safe(C, D, R, U \cup {x}, IC, IA, fresh)
      BY <1>3, <3>2, <3>3, SafeSend
    <3>5. ToSet(net'[<<a, Ctrl>>]) = U \cup {x} /\ net'[<<Ctrl, a>>] = net[<<Ctrl, a>>]
      BY <1>0, <1>4, <1>5, <3>1
    <3> QED BY <1>2, <2>2, <3>1, <3>4, <3>5 DEF SafeAgent
  <2> QED BY <2>1, <2>2
<1> QED BY <1>2, <1>6, <1>7 DEF SInv

LEMMA Restarting ==
  ASSUME Typed, SInv, NEW a \in Agents, Restart(a)
  PROVE  Typed' /\ SInv'
<1>0. <<a, Ctrl>> \in Links /\ <<Ctrl, a>> \in Links /\ <<Ctrl, a>> # <<a, Ctrl>> /\ a \in Nodes
  BY LinkFacts DEF Nodes
<1>1. PICK E : E = NoCtx
  OBVIOUS
<1>2. E \in Ctxs /\ E.an = 0 /\ E.sn = 0 /\ E.kck = {} /\ E.idx = 0
  BY <1>1, NewCtxFacts
<1>3. /\ ctx' = [ctx EXCEPT ![<<a, Ctrl>>] = E] /\ gtk' = [gtk EXCEPT ![a] = 0]
      /\ trans' = [trans EXCEPT ![a] = 0] /\ UNCHANGED <<gtkId, inst, fresh, net>>
  BY <1>1 DEF Restart
<1>4. /\ ctx' \in [Links -> Ctxs] /\ ctx'[<<a, Ctrl>>] = E
      /\ \A k \in Links \ {<<a, Ctrl>>} : ctx'[k] = ctx[k]
  BY <1>0, <1>2, <1>3 DEF Typed
<1>5. /\ gtk' \in [Nodes -> Nat] /\ trans' \in [Nodes -> Nat] /\ \A b \in Agents : gtk'[b] = 0
  BY <1>0, <1>3 DEF Typed, SInv
<1>6. Typed'
  BY <1>3, <1>4, <1>5 DEF Typed
<1>7. ASSUME NEW b \in Agents PROVE SafeAgent(b)'
  <2>1. CASE b # a
    <3>1. /\ <<Ctrl, b>> \in Links \ {<<a, Ctrl>>} /\ <<b, Ctrl>> \in Links \ {<<a, Ctrl>>}
          /\ fresh' \in Nat /\ fresh <= fresh'
      BY <1>3, <2>1, LinkFacts DEF Typed
    <3> QED BY <1>3, <1>4, <3>1, LessKeeps DEF SInv
  <2>2. CASE b = a
    <3>1. PICK C, D, R, U, IC, IA :
            /\ C = ctx[<<Ctrl, a>>] /\ D = ctx[<<a, Ctrl>>]
            /\ R = ToSet(net[<<Ctrl, a>>]) /\ U = ToSet(net[<<a, Ctrl>>])
            /\ IC = ToSet(inst[<<Ctrl, a>>]) /\ IA = ToSet(inst[<<a, Ctrl>>])
      OBVIOUS
    <3>2. /\ C \in Ctxs /\ D \in Ctxs /\ R \in SUBSET Msgs /\ U \in SUBSET Msgs
          /\ IC \in SUBSET (SUBSET Nat) /\ IA \in SUBSET (SUBSET Nat) /\ fresh \in Nat
      BY <3>1, AgentTyped DEF Typed
    <3>3. Safe(C, D, R, U, IC, IA, fresh)
      BY <3>1 DEF SInv, SafeAgent
    <3>4. Safe(C, E, R, U, IC, IA, fresh)
      <4>1. E.an <= fresh /\ E.sn <= fresh /\ \A k \in E.kck : k <= fresh
        BY <1>2, <3>2
      <4> QED BY <1>2, <3>2, <3>3, <4>1, SafeContext
    <3>5. ctx'[<<Ctrl, a>>] = C
      BY <1>0, <1>4, <3>1
    <3> QED BY <1>3, <1>4, <2>2, <3>1, <3>4, <3>5 DEF SafeAgent
  <2> QED BY <2>1, <2>2
<1> QED BY <1>3, <1>5, <1>6, <1>7 DEF SInv

\* A step that gives some links a new context and one more message, for one
\* agent after the other.
LEMMA Rekeying ==
  ASSUME Typed, SInv, NEW L \in SUBSET Links,
         NEW c \in [Links -> Ctxs], NEW x \in [Links -> Msgs],
         ctx' = [l \in Links |-> IF l \in L THEN c[l] ELSE ctx[l]],
         net' = [l \in Links |-> IF l \in L THEN Append(net[l], x[l]) ELSE net[l]],
         inst' = inst, gtk' \in [Nodes -> Nat], gtkId' \in [Nodes -> Nat], trans' \in [Nodes -> Nat],
         \A b \in Agents : gtk'[b] = 0,
         fresh' = fresh + 1,
         \A b \in Agents : \/ <<Ctrl, b>> \notin L /\ <<b, Ctrl>> \notin L
                           \/ SafeAgent(b)'
  PROVE  Typed' /\ SInv'
<1>1. fresh' \in Nat /\ fresh <= fresh'
  BY DEF Typed
<1>2. \A l \in Links : Append(net[l], x[l]) \in Seq(Msgs)
  <2> SUFFICES ASSUME NEW l \in Links PROVE Append(net[l], x[l]) \in Seq(Msgs)
    OBVIOUS
  <2>1. net[l] \in Seq(Msgs) /\ x[l] \in Msgs
    BY DEF Typed
  <2> QED BY <2>1, SetOfAppend
<1>3. net' \in [Links -> Seq(Msgs)] /\ ctx' \in [Links -> Ctxs]
  BY <1>2 DEF Typed
<1>4. Typed'
  BY <1>1, <1>3 DEF Typed
<1>5. ASSUME NEW b \in Agents PROVE SafeAgent(b)'
  <2>1. CASE <<Ctrl, b>> \notin L /\ <<b, Ctrl>> \notin L
    <3>1. <<Ctrl, b>> \in Links /\ <<b, Ctrl>> \in Links /\ SafeAgent(b)
      BY LinkFacts DEF SInv
    <3>2. /\ ctx'[<<Ctrl, b>>] = ctx[<<Ctrl, b>>] /\ ctx'[<<b, Ctrl>>] = ctx[<<b, Ctrl>>]
          /\ net'[<<Ctrl, b>>] = net[<<Ctrl, b>>] /\ net'[<<b, Ctrl>>] = net[<<b, Ctrl>>]
      BY <2>1, <3>1
    <3> QED BY <1>1, <3>1, <3>2, LessKeeps
  <2> QED BY <2>1
<1> QED BY <1>4, <1>5 DEF SInv

\* The state of one agent after such a step of the controller's, and of its own.
LEMMA RekeyedDown ==
  ASSUME Typed, SInv, NEW L \in SUBSET Links,
         NEW c \in [Links -> Ctxs], NEW x \in [Links -> Msgs],
         ctx' = [l \in Links |-> IF l \in L THEN c[l] ELSE ctx[l]],
         net' = [l \in Links |-> IF l \in L THEN Append(net[l], x[l]) ELSE net[l]],
         inst' = inst,
         NEW a \in Agents, <<Ctrl, a>> \in L, <<a, Ctrl>> \notin L,
         Safe(c[<<Ctrl, a>>], ctx[<<a, Ctrl>>], ToSet(net[<<Ctrl, a>>]) \cup {x[<<Ctrl, a>>]},
              ToSet(net[<<a, Ctrl>>]), ToSet(inst[<<Ctrl, a>>]), ToSet(inst[<<a, Ctrl>>]), fresh')
  PROVE  SafeAgent(a)'
<1>1. <<Ctrl, a>> \in Links /\ <<a, Ctrl>> \in Links
  BY LinkFacts
<1>2. net[<<Ctrl, a>>] \in Seq(Msgs) /\ x[<<Ctrl, a>>] \in Msgs
  BY <1>1 DEF Typed
<1>3. ToSet(Append(net[<<Ctrl, a>>], x[<<Ctrl, a>>])) = ToSet(net[<<Ctrl, a>>]) \cup {x[<<Ctrl, a>>]}
  BY <1>2, SetOfAppend
<1>4. /\ ctx'[<<Ctrl, a>>] = c[<<Ctrl, a>>] /\ ctx'[<<a, Ctrl>>] = ctx[<<a, Ctrl>>]
      /\ net'[<<Ctrl, a>>] = Append(net[<<Ctrl, a>>], x[<<Ctrl, a>>])
      /\ net'[<<a, Ctrl>>] = net[<<a, Ctrl>>]
  BY <1>1
<1> QED BY <1>3, <1>4 DEF SafeAgent

LEMMA RekeyedUp ==
  ASSUME Typed, SInv, NEW L \in SUBSET Links,
         NEW c \in [Links -> Ctxs], NEW x \in [Links -> Msgs],
         ctx' = [l \in Links |-> IF l \in L THEN c[l] ELSE ctx[l]],
         net' = [l \in Links |-> IF l \in L THEN Append(net[l], x[l]) ELSE net[l]],
         inst' = inst,
         NEW a \in Agents, <<Ctrl, a>> \notin L, <<a, Ctrl>> \in L,
         Safe(ctx[<<Ctrl, a>>], c[<<a, Ctrl>>], ToSet(net[<<Ctrl, a>>]),
              ToSet(net[<<a, Ctrl>>]) \cup {x[<<a, Ctrl>>]},
              ToSet(inst[<<Ctrl, a>>]), ToSet(inst[<<a, Ctrl>>]), fresh')
  PROVE  SafeAgent(a)'
<1>1. <<Ctrl, a>> \in Links /\ <<a, Ctrl>> \in Links
  BY LinkFacts
<1>2. net[<<a, Ctrl>>] \in Seq(Msgs) /\ x[<<a, Ctrl>>] \in Msgs
  BY <1>1 DEF Typed
<1>3. ToSet(Append(net[<<a, Ctrl>>], x[<<a, Ctrl>>])) = ToSet(net[<<a, Ctrl>>]) \cup {x[<<a, Ctrl>>]}
  BY <1>2, SetOfAppend
<1>4. /\ ctx'[<<a, Ctrl>>] = c[<<a, Ctrl>>] /\ ctx'[<<Ctrl, a>>] = ctx[<<Ctrl, a>>]
      /\ net'[<<a, Ctrl>>] = Append(net[<<a, Ctrl>>], x[<<a, Ctrl>>])
      /\ net'[<<Ctrl, a>>] = net[<<Ctrl, a>>]
  BY <1>1
<1> QED BY <1>3, <1>4 DEF SafeAgent

LEMMA PtkRekeying ==
  ASSUME Typed, SInv, NEW n \in Nodes, rekey_1905_layer_ptk(n)
  PROVE  Typed' /\ SInv'
<1>0. fresh \in Nat /\ fresh <= fresh + 1 /\ fresh + 1 <= fresh + 1
  BY DEF Typed
<1>1. PICK L : L = {n} \X {p \in Nodes : <<n, p>> \in Links /\ ctx[<<n, p>>].known}
  OBVIOUS
<1>2. PICK c : c = [l \in Links |-> begin_1905_4way_handshake(ctx[l])]
  OBVIOUS
<1>3. PICK x : x = [l \in Links |-> build_pw_eapol_frame_1(c[l])]
  OBVIOUS
<1>4. L \in SUBSET Links /\ \A l \in L : ctx[l].known /\ l[1] = n
  BY <1>1
<1>5. \A l \in Links : /\ c[l] \in Ctxs /\ c[l].known = ctx[l].known /\ c[l].an = fresh + 1
                       /\ c[l].sn = ctx[l].sn /\ c[l].kck = ctx[l].kck /\ c[l].idx = 1
                       /\ c[l].ctr \in Nat
  <2> SUFFICES ASSUME NEW l \in Links
               PROVE  /\ c[l] \in Ctxs /\ c[l].known = ctx[l].known /\ c[l].an = fresh + 1
                      /\ c[l].sn = ctx[l].sn /\ c[l].kck = ctx[l].kck /\ c[l].idx = 1
                      /\ c[l].ctr \in Nat
    OBVIOUS
  <2>1. ctx[l] \in Ctxs /\ c[l] = begin_1905_4way_handshake(ctx[l])
    BY <1>2 DEF Typed
  <2>2. /\ c[l] \in Ctxs /\ c[l].known = ctx[l].known /\ c[l].an = fresh + 1
        /\ c[l].sn = ctx[l].sn /\ c[l].kck = ctx[l].kck /\ c[l].idx = 1
    BY <1>0, <2>1, BeginFacts
  <2> QED BY <2>2 DEF Ctxs
<1>6. \A l \in Links : /\ x[l] \in Msgs /\ x[l].type = "pw" /\ x[l].nonce = fresh + 1
                       /\ x[l].ctr = c[l].ctr /\ x[l].mic = {}
  <2> SUFFICES ASSUME NEW l \in Links
               PROVE  /\ x[l] \in Msgs /\ x[l].type = "pw" /\ x[l].nonce = fresh + 1
                      /\ x[l].ctr = c[l].ctr /\ x[l].mic = {}
    OBVIOUS
  <2>1. x[l] = Frame("pw", c[l].ctr, fresh + 1, {}, 0, 0) /\ c[l].ctr \in Nat /\ fresh + 1 \in Nat
    BY <1>0, <1>3, <1>5 DEF build_pw_eapol_frame_1
  <2> QED BY <2>1, FrameTyped
<1>7. c \in [Links -> Ctxs] /\ x \in [Links -> Msgs]
  BY <1>2, <1>3, <1>5, <1>6
<1>8. /\ ctx' = [l \in Links |-> IF l \in L THEN c[l] ELSE ctx[l]]
      /\ net' = [l \in Links |-> IF l \in L THEN Append(net[l], x[l]) ELSE net[l]]
      /\ inst' = inst /\ fresh' = fresh + 1
  BY <1>1, <1>2, <1>3 DEF rekey_1905_layer_ptk
<1>9. /\ gtk' \in [Nodes -> Nat] /\ gtkId' \in [Nodes -> Nat] /\ trans' \in [Nodes -> Nat]
      /\ \A b \in Agents : gtk'[b] = 0
  BY DEF rekey_1905_layer_ptk, Typed, SInv
<1>10. ASSUME NEW b \in Agents
       PROVE  (<<Ctrl, b>> \notin L /\ <<b, Ctrl>> \notin L) \/ SafeAgent(b)'
  <2>0. <<Ctrl, b>> \in Links /\ <<b, Ctrl>> \in Links /\ b # Ctrl
    BY LinkFacts
  <2>1. PICK C, D, R, U, IC, IA, f :
          /\ C = ctx[<<Ctrl, b>>] /\ D = ctx[<<b, Ctrl>>]
          /\ R = ToSet(net[<<Ctrl, b>>]) /\ U = ToSet(net[<<b, Ctrl>>])
          /\ IC = ToSet(inst[<<Ctrl, b>>]) /\ IA = ToSet(inst[<<b, Ctrl>>]) /\ f = fresh
    OBVIOUS
  <2>2. /\ C \in Ctxs /\ D \in Ctxs /\ R \in SUBSET Msgs /\ U \in SUBSET Msgs
        /\ IC \in SUBSET (SUBSET Nat) /\ IA \in SUBSET (SUBSET Nat) /\ f \in Nat /\ f + 1 \in Nat
    <3>1. f \in Nat /\ f + 1 \in Nat
      BY <2>1 DEF Typed
    <3> QED BY <2>1, <3>1, AgentTyped
  <2>3. Safe(C, D, R, U, IC, IA, f)
    BY <2>1 DEF SInv, SafeAgent
  <2>4. CASE <<Ctrl, b>> \in L
    <3>1. n = Ctrl /\ C.known /\ <<b, Ctrl>> \notin L
      BY <1>4, <2>0, <2>1, <2>4
    <3>2. PICK E, y : E = c[<<Ctrl, b>>] /\ y = x[<<Ctrl, b>>]
      OBVIOUS
    <3>3. /\ E \in Ctxs /\ E.known /\ E.idx = 1 /\ E.an = f + 1 /\ E.sn = C.sn /\ E.kck = C.kck
          /\ y \in Msgs /\ y.type = "pw" /\ y.nonce = f + 1 /\ y.ctr = E.ctr /\ y.mic = {}
      BY <1>5, <1>6, <2>0, <2>1, <3>1, <3>2
    <3>4. E.sn <= f /\ \A k \in E.kck : k <= f
      BY <2>3, <3>3 DEF Safe, Drawn, CtxDrawn
    <3>5. PICK N : N = {y}
      OBVIOUS
    <3>6. /\ N \in SUBSET Msgs /\ \A z \in N : z.type # "req"
          /\ \A z \in Pw(N) : z.nonce = f + 1 /\ z.ctr = E.ctr /\ z.mic = {}
      BY <3>3, <3>5 DEF Pw
    <3>7. Safe(E, D, R \cup N, U, IC, IA, f + 1)
      BY <2>2, <2>3, <3>3, <3>4, <3>6, SafeBegin
    <3>8. Safe(c[<<Ctrl, b>>], ctx[<<b, Ctrl>>], ToSet(net[<<Ctrl, b>>]) \cup {x[<<Ctrl, b>>]},
               ToSet(net[<<b, Ctrl>>]), ToSet(inst[<<Ctrl, b>>]), ToSet(inst[<<b, Ctrl>>]), fresh')
      BY <1>8, <2>1, <3>2, <3>5, <3>7
    <3> QED BY <1>4, <1>7, <1>8, <2>4, <3>1, <3>8, RekeyedDown
  <2>5. CASE <<b, Ctrl>> \in L
    <3>1. n = b /\ <<Ctrl, b>> \notin L
      BY <1>4, <2>0, <2>5
    <3>2. PICK E, y : E = c[<<b, Ctrl>>] /\ y = x[<<b, Ctrl>>]
      OBVIOUS
    <3>3. /\ E \in Ctxs /\ E.idx = 1 /\ E.an = f + 1 /\ E.sn = D.sn /\ E.kck = D.kck
          /\ y \in Msgs /\ y.type = "pw" /\ y.nonce = f + 1 /\ y.mic = {}
      BY <1>5, <1>6, <2>0, <2>1, <3>2
    <3>4. Safe(C, D, R, U, IC, IA, f + 1) /\ f + 1 <= f + 1
      <4>1. f <= f + 1 /\ f + 1 <= f + 1 /\ R \in SUBSET R /\ U \in SUBSET U
        BY <2>2
      <4> QED BY <2>2, <2>3, <4>1, SafeLess
    <3>5. E.an <= f + 1 /\ E.sn <= f + 1 /\ \A k \in E.kck : k <= f + 1
      BY <3>3, <3>4 DEF Safe, Drawn, CtxDrawn
    <3>6. Safe(C, E, R, U, IC, IA, f + 1)
      BY <2>2, <3>3, <3>4, <3>5, SafeContext
    <3>7. y.nonce <= f + 1 /\ \A K \in y.mic : K = {}
      BY <3>3, <3>4
    <3>8. Safe(C, E, R, U \cup {y}, IC, IA, f + 1)
      BY <2>2, <3>3, <3>6, <3>7, SafeSend
    <3>9. Safe(ctx[<<Ctrl, b>>], c[<<b, Ctrl>>], ToSet(net[<<Ctrl, b>>]),
               ToSet(net[<<b, Ctrl>>]) \cup {x[<<b, Ctrl>>]},
               ToSet(inst[<<Ctrl, b>>]), ToSet(inst[<<b, Ctrl>>]), fresh')
      BY <1>8, <2>1, <3>2, <3>8
    <3> QED BY <1>4, <1>7, <1>8, <2>5, <3>1, <3>9, RekeyedUp
  <2> QED BY <2>4, <2>5
<1> QED BY <1>4, <1>7, <1>8, <1>9, <1>10, Rekeying

LEMMA GtkRekeying ==
  ASSUME Typed, SInv, rekey_1905_layer_gtk
  PROVE  Typed' /\ SInv'
<1>0. fresh \in Nat /\ fresh + 1 \in Nat /\ Ctrl \in Nodes /\ \A b \in Agents : b \in Nodes /\ b # Ctrl
  <2>1. fresh \in Nat /\ fresh + 1 \in Nat
    BY DEF Typed
  <2> QED BY <2>1, LinkFacts DEF Nodes
<1>1. PICK L : L = {l \in {Ctrl} \X Agents : ctx[l].known}
  OBVIOUS
<1>2. PICK c : c = [l \in Links |-> [ctx[l] EXCEPT !.ctr = @ + 1, !.idx = 1]]
  OBVIOUS
<1>3. PICK id, x : /\ id = NextGtkId(gtkId[Ctrl])
                   /\ x = [l \in Links |-> build_group_eapol_frame_1(c[l], fresh + 1, id)]
  OBVIOUS
<1>4. L \in SUBSET Links /\ \A l \in L : ctx[l].known /\ l[1] = Ctrl
  BY <1>1 DEF Links
<1>5. id \in Nat /\ id % 4 \in Nat
  <2>1. gtkId[Ctrl] \in Nat
    BY <1>0 DEF Typed
  <2>2. id \in Nat
    BY <1>3, <2>1, NextGtkIdTyped
  <2> QED BY <2>2
<1>6. \A l \in Links : /\ c[l] \in Ctxs /\ c[l].known = ctx[l].known /\ c[l].an = ctx[l].an
                       /\ c[l].sn = ctx[l].sn /\ c[l].kck = ctx[l].kck /\ c[l].idx = 1
                       /\ c[l].ctr = ctx[l].ctr + 1 /\ c[l].ctr \in Nat /\ c[l].kck \in SUBSET Nat
  <2> SUFFICES ASSUME NEW l \in Links
               PROVE  /\ c[l] \in Ctxs /\ c[l].known = ctx[l].known /\ c[l].an = ctx[l].an
                      /\ c[l].sn = ctx[l].sn /\ c[l].kck = ctx[l].kck /\ c[l].idx = 1
                      /\ c[l].ctr = ctx[l].ctr + 1 /\ c[l].ctr \in Nat /\ c[l].kck \in SUBSET Nat
    OBVIOUS
  <2>1. PICK d, t, e : d = ctx[l] /\ t = d.ctr + 1 /\ e = c[l]
    OBVIOUS
  <2>2. d \in Ctxs /\ t \in Nat /\ 1 \in 0 .. 4
    BY <2>1 DEF Typed, Ctxs
  <2>3. e = [d EXCEPT !.ctr = t, !.idx = 1]
    BY <1>2, <2>1
  <2>4. e \in Ctxs
    BY <2>2, <2>3 DEF Ctxs
  <2>5. /\ e.known = d.known /\ e.an = d.an /\ e.sn = d.sn /\ e.kck = d.kck /\ e.idx = 1
        /\ e.ctr = t /\ e.kck \in SUBSET Nat
    BY <2>2, <2>3, <2>4 DEF Ctxs
  <2> QED BY <2>1, <2>2, <2>4, <2>5
<1>7. \A l \in Links : x[l] \in Msgs /\ x[l].type = "group"
  <2> SUFFICES ASSUME NEW l \in Links PROVE x[l] \in Msgs /\ x[l].type = "group"
    OBVIOUS
  <2>1. x[l] = Frame("group", c[l].ctr, 0, {c[l].kck}, fresh + 1, id % 4)
    BY <1>3 DEF build_group_eapol_frame_1
  <2>2. c[l].ctr \in Nat /\ {c[l].kck} \in SUBSET (SUBSET Nat)
    BY <1>6
  <2>3. PICK t, K, g, q : t = c[l].ctr /\ K = {c[l].kck} /\ g = fresh + 1 /\ q = id % 4
    OBVIOUS
  <2>4. /\ t \in Nat /\ K \in SUBSET (SUBSET Nat) /\ g \in Nat /\ q \in Nat
        /\ x[l] = Frame("group", t, 0, K, g, q)
    BY <1>0, <1>5, <2>1, <2>2, <2>3
  <2> QED BY <2>4, FrameTyped
<1>8. c \in [Links -> Ctxs] /\ x \in [Links -> Msgs]
  BY <1>2, <1>3, <1>6, <1>7
<1>9. /\ ctx' = [l \in Links |-> IF l \in L THEN c[l] ELSE ctx[l]]
      /\ net' = [l \in Links |-> IF l \in L THEN Append(net[l], x[l]) ELSE net[l]]
      /\ inst' = inst /\ fresh' = fresh + 1
  BY <1>1, <1>2, <1>3 DEF rekey_1905_layer_gtk
<1>10. /\ gtk' \in [Nodes -> Nat] /\ gtkId' \in [Nodes -> Nat] /\ trans' \in [Nodes -> Nat]
       /\ \A b \in Agents : gtk'[b] = 0
  <2>1. /\ gtk' = [gtk EXCEPT ![Ctrl] = fresh + 1] /\ gtkId' = [gtkId EXCEPT ![Ctrl] = id]
        /\ trans' = trans
    BY <1>3 DEF rekey_1905_layer_gtk
  <2> QED BY <1>0, <1>5, <2>1 DEF Typed, SInv
<1>11. ASSUME NEW b \in Agents
       PROVE  (<<Ctrl, b>> \notin L /\ <<b, Ctrl>> \notin L) \/ SafeAgent(b)'
  <2>0. <<Ctrl, b>> \in Links /\ <<b, Ctrl>> \in Links /\ b # Ctrl /\ <<b, Ctrl>> \notin L
    BY <1>4, LinkFacts
  <2>1. PICK C, D, R, U, IC, IA, f :
          /\ C = ctx[<<Ctrl, b>>] /\ D = ctx[<<b, Ctrl>>]
          /\ R = ToSet(net[<<Ctrl, b>>]) /\ U = ToSet(net[<<b, Ctrl>>])
          /\ IC = ToSet(inst[<<Ctrl, b>>]) /\ IA = ToSet(inst[<<b, Ctrl>>]) /\ f = fresh
    OBVIOUS
  <2>2. /\ C \in Ctxs /\ D \in Ctxs /\ R \in SUBSET Msgs /\ U \in SUBSET Msgs
        /\ IC \in SUBSET (SUBSET Nat) /\ IA \in SUBSET (SUBSET Nat) /\ f \in Nat /\ f + 1 \in Nat
    <3>1. f \in Nat /\ f + 1 \in Nat
      BY <2>1 DEF Typed
    <3> QED BY <2>1, <3>1, AgentTyped
  <2>3. Safe(C, D, R, U, IC, IA, f)
    BY <2>1 DEF SInv, SafeAgent
  <2>4. CASE <<Ctrl, b>> \in L
    <3>1. C.known
      BY <1>4, <2>1, <2>4
    <3>2. PICK E, y : E = c[<<Ctrl, b>>] /\ y = x[<<Ctrl, b>>]
      OBVIOUS
    <3>3. /\ E \in Ctxs /\ E.known /\ E.idx = 1 /\ E.an = C.an /\ E.sn = C.sn /\ E.kck = C.kck
          /\ E.ctr = C.ctr + 1 /\ y \in Msgs /\ y.type = "group"
      BY <1>6, <1>7, <2>0, <2>1, <3>1, <3>2
    <3>4. Safe(E, D, R \cup {y}, U, IC, IA, f)
      BY <2>2, <2>3, <3>1, <3>3, SafeGroup
    <3>5. Safe(E, D, R \cup {y}, U, IC, IA, f + 1)
      <4>1. PICK R2 : R2 = R \cup {y}
        OBVIOUS
      <4>2. f <= f + 1 /\ R2 \in SUBSET R2 /\ U \in SUBSET U /\ R2 \in SUBSET Msgs
        BY <2>2, <3>3, <4>1
      <4>3. Safe(E, D, R2, U, IC, IA, f)
        BY <3>4, <4>1
      <4>4. Safe(E, D, R2, U, IC, IA, f + 1)
        BY <2>2, <3>3, <4>2, <4>3, SafeLess
      <4> QED BY <4>1, <4>4
    <3>6. Safe(c[<<Ctrl, b>>], ctx[<<b, Ctrl>>], ToSet(net[<<Ctrl, b>>]) \cup {x[<<Ctrl, b>>]},
               ToSet(net[<<b, Ctrl>>]), ToSet(inst[<<Ctrl, b>>]), ToSet(inst[<<b, Ctrl>>]), fresh')
      BY <1>9, <2>1, <3>2, <3>5
    <3> QED BY <1>4, <1>8, <1>9, <2>0, <2>4, <3>6, RekeyedDown
  <2> QED BY <2>0, <2>4
<1> QED BY <1>4, <1>8, <1>9, <1>10, <1>11, Rekeying

------------------------------------------------------------------------------
\* The theorems.

LEMMA SafeInit == Init => Typed /\ SInv
<1> SUFFICES ASSUME Init PROVE Typed /\ SInv
  OBVIOUS
<1>1. PICK E : E = NoCtx
  OBVIOUS
<1>2. /\ E \in Ctxs /\ E.an = 0 /\ E.sn = 0 /\ E.kck = {} /\ E.idx = 0 /\ ~E.known
  BY <1>1, NewCtxFacts
<1>3. /\ << >> \in Seq(Msgs) /\ << >> \in Seq(SUBSET Nat) /\ ToSet(<< >>) = {}
      /\ \A id \in GtkIds : id \in Nat
  <2>1. \A id \in GtkIds : id \in Nat
    BY EapolAssumption
  <2>2. << >> \in Seq(SUBSET Nat)
    OBVIOUS
  <2> QED BY <2>1, <2>2, Singles
<1>4. Typed
  BY <1>1, <1>2, <1>3 DEF Init, Typed
<1>5. Safe(E, E, {}, {}, {}, {}, 0)
  <2>1. Drawn(E, E, {}, {}, {}, {}, 0)
    BY <1>2 DEF Drawn, CtxDrawn, NetDrawn, KeysDrawn, Pw
  <2>2. Roles(E, E, {}, {}) /\ Supplicant(E, E, {}) /\ Answers({}, {}) /\ Authenticator(E, {}, {}, {})
        /\ Installed({}, {})
    BY <1>2 DEF Roles, Supplicant, Answers, Authenticator, Installed, Pw
  <2> QED BY <2>1, <2>2 DEF Safe
<1>6. ASSUME NEW a \in Agents PROVE SafeAgent(a) /\ gtk[a] = 0
  <2>1. <<Ctrl, a>> \in Links /\ <<a, Ctrl>> \in Links /\ a \in Nodes
    BY LinkFacts DEF Nodes
  <2>2. /\ ctx[<<Ctrl, a>>] = E /\ ctx[<<a, Ctrl>>] = E
        /\ net[<<Ctrl, a>>] = << >> /\ net[<<a, Ctrl>>] = << >>
        /\ inst[<<Ctrl, a>>] = << >> /\ inst[<<a, Ctrl>>] = << >> /\ fresh = 0 /\ gtk[a] = 0
    BY <1>1, <2>1 DEF Init
  <2> QED BY <1>3, <1>5, <2>2 DEF SafeAgent
<1>7. \A l \in Links : Distinct(inst[l])
  <2>1. Distinct(<< >>)
    BY DEF Distinct
  <2> QED BY <2>1 DEF Init
<1> QED BY <1>4, <1>6, <1>7 DEF SInv

LEMMA SafeStep == Typed /\ SInv /\ [Next]_vars => Typed' /\ SInv'
<1> SUFFICES ASSUME Typed, SInv, [Next]_vars PROVE Typed' /\ SInv'
  OBVIOUS
<1>1. ASSUME NEW a \in Agents, start_secure_1905_layer(a) PROVE Typed' /\ SInv'
  BY <1>1, Starting
<1>2. ASSUME NEW a \in Agents, Restart(a) PROVE Typed' /\ SInv'
  BY <1>2, Restarting
<1>3. CASE Deliveries
  <2>1. PICK l \in Links : Deliver(l[1], l[2])
    BY <1>3 DEF Deliveries
  <2>2. PICK a \in Agents : l = <<Ctrl, a>> \/ l = <<a, Ctrl>>
    BY LinkFacts
  <2>3. CASE l = <<Ctrl, a>>
    <3>1. Deliver(Ctrl, a)
      BY <2>1, <2>3
    <3> QED BY <3>1, DownDeliver
  <2>4. CASE l = <<a, Ctrl>>
    <3>1. Deliver(a, Ctrl)
      BY <2>1, <2>4
    <3> QED BY <3>1, UpDeliver
  <2> QED BY <2>2, <2>3, <2>4
<1>4. ASSUME NEW l \in Links, Lose(l[1], l[2]) PROVE Typed' /\ SInv'
  BY <1>4, Losing
<1>5. ASSUME NEW n \in Nodes, rekey_1905_layer_ptk(n) PROVE Typed' /\ SInv'
  BY <1>5, PtkRekeying
<1>6. CASE rekey_1905_layer_gtk
  BY <1>6, GtkRekeying
<1>7. CASE UNCHANGED vars
  BY <1>7 DEF vars, keys, Typed, SInv, SafeAgent
<1> QED BY <1>1, <1>2, <1>3, <1>4, <1>5, <1>6, <1>7 DEF Next

\* What the controller's nonce, the counters and the MICs on a link may be, in
\* every state of the handshakes: the reason why a frame 4 that
\* handle_pw_eapol_frame_4 accepts is the answer to the frame 3 before it.
THEOREM HandshakeSafe == Spec => [](Typed /\ SInv)
  BY SafeInit, SafeStep, PTL DEF Spec

\* The controller installs no PTK for an agent that the agent has not installed
\* before (handle_pw_eapol_frame_3, handle_pw_eapol_frame_4), for any number
\* of agents, requests, restarts, rekeys and lost, repeated or overtaken
\* messages.
THEOREM AgentHasKeyFirst == Spec => []PeerHasKey
<1>1. SInv => PeerHasKey
  BY DEF SInv, SafeAgent, Safe, Installed, PeerHasKey
<1> QED BY <1>1, HandshakeSafe, PTL

\* No device installs a PTK twice, a cleared buffer or a key that misses a
\* nonce: the counter and the cleared ptk of the handlers of frames 3 and 4
\* are enough, whatever is repeated.
THEOREM InstallsOnce == Spec => []NoReinstall
<1>1. Typed /\ SInv => NoReinstall
  <2> SUFFICES ASSUME Typed, SInv, NEW l \in Links
               PROVE  /\ Distinct(inst[l])
                      /\ \A k \in ToSet(inst[l]) : k # {} /\ 0 \notin k
    BY DEF NoReinstall, Distinct
  <2>1. Distinct(inst[l])
    BY DEF SInv
  <2>2. PICK a \in Agents : l = <<Ctrl, a>> \/ l = <<a, Ctrl>>
    BY LinkFacts
  <2>3. Installed(ToSet(inst[<<Ctrl, a>>]), ToSet(inst[<<a, Ctrl>>]))
    BY DEF SInv, SafeAgent, Safe
  <2> QED BY <2>1, <2>2, <2>3 DEF Installed
<1> QED BY <1>1, HandshakeSafe, PTL
=============================================================================
