--------------------------- MODULE RadioAccess_proofs ---------------------------
(***************************************************************************)
(* Theorems about RadioAccess, for any number of dongles, USB ports, ttys  *)
(* and moves by the user, and whatever the dongles answer: which dongle    *)
(* nrfdfu writes, that whoever answers holds a version, and that an answer *)
(* which arrives whole is read as that version.                           *)
(***************************************************************************)
EXTENDS RadioAccess, SpinelCodec_proofs

-----------------------------------------------------------------------------
(***************************************************************************)
(* The inductive invariant.  No two dongles share a USB port or a tty, and *)
(* a dongle with a tty is plugged in.  The tty of the target has either    *)
(* changed hands or belongs to the dongle on the selected port; in a       *)
(* steady operation that dongle is the configured one, in its bootloader.  *)
(***************************************************************************)
Modes == {"app", "dfu", "gone"}

BusTypes ==
  /\ place \in [Dongles -> Paths \cup {None}]
  /\ mode \in [Dongles -> Modes]
  /\ tty \in [Dongles -> Ports \cup {None}]
  /\ steady \in BOOLEAN

BusOK ==
  /\ \A d, e \in Dongles : place[d] # None /\ place[d] = place[e] => d = e
  /\ \A d, e \in Dongles : tty[d] # None /\ tty[d] = tty[e] => d = e
  /\ \A d \in Dongles : mode[d] # "gone" <=> tty[d] # None
  /\ \A d \in Dongles : tty[d] # None => place[d] # None

Targeted == {"confirm", "images", "transfer", "reboot"}

\* The tty q has changed hands, or is that of the dongle on port path.
Leads(q, path) ==
  q \in taken \/ \E d \in Dongles : tty[d] = q /\ place[d] = path

TargetOK ==
  pc \in Targeted => target.port \in Ports /\ Leads(target.port, selector.path)

Selected == {"reset", "enumerate", "images", "transfer", "verify", "judge", "reboot"}

\* The tty of the target has not changed hands: a bootloader has it.
Kept(q) == q \notin taken /\ \E d \in Dongles : mode[d] = "dfu" /\ tty[d] = q

SteadyOK ==
  /\ steady => pc \notin {"recover", "check", "confirm"}
  /\ steady /\ pc \in Selected => \E d \in Named : place[d] = selector.path
  /\ steady /\ pc \in {"images", "transfer", "reboot"} => Kept(target.port)

IInv == BusTypes /\ BusOK /\ TargetOK /\ SteadyOK

\* The invariant holds initially.
LEMMA IInvInit == Init => IInv
  <1> SUFFICES ASSUME Init PROVE IInv
    OBVIOUS
  <1>1. /\ place \in [Dongles -> Paths \cup {None}]
        /\ \A d, e \in Dongles : d # e /\ place[d] # None => place[d] # place[e]
        /\ tty \in [Dongles -> Ports \cup {None}]
        /\ \A d \in Dongles : tty[d] = None <=> place[d] = None
        /\ \A d, e \in Dongles : d # e /\ tty[d] # None => tty[d] # tty[e]
    BY DEF Init
  <1>2. /\ mode \in [Dongles -> Modes]
        /\ \A d \in Dongles : mode[d] # "gone" <=> place[d] # None
    BY DEF Init, Modes
  <1>3. steady = FALSE /\ pc = "idle"
    BY DEF Init
  <1> QED
    BY <1>1, <1>2, <1>3 DEF IInv, BusTypes, BusOK, TargetOK, SteadyOK, Targeted, Selected

\* A dongle that enumerates takes a tty that nobody has, or keeps its own; the
\* one it gives up has changed hands.
LEMMA Enumeration ==
  ASSUME BusTypes, NEW d \in Dongles, NEW m \in Modes, Enumerates(d, m)
  PROVE  /\ mode' \in [Dongles -> Modes] /\ mode'[d] = m
         /\ tty' \in [Dongles -> Ports \cup {None}]
         /\ \A e \in Dongles : e # d => tty'[e] = tty[e] /\ mode'[e] = mode[e]
         /\ m # "gone" <=> tty'[d] # None
         /\ tty'[d] \in {tty[d], None} \/ \A e \in Dongles : tty[e] # tty'[d]
         /\ taken \subseteq taken'
         /\ tty[d] \in Ports => tty'[d] = tty[d] \/ tty[d] \in taken'
         /\ taken' \subseteq taken \cup {tty[d]}
  <1> USE NoneAssumption DEF BusTypes
  <1>1. mode' \in [Dongles -> Modes] /\ mode'[d] = m
        /\ \A e \in Dongles : e # d => mode'[e] = mode[e]
    BY DEF Enumerates
  <1>2. PICK p \in Ports \cup {None} :
          /\ tty' = [tty EXCEPT ![d] = p]
          /\ m # "gone" <=> p # None
          /\ p \in {tty[d], None} \/ p \notin Used
    BY DEF Enumerates, FreePorts
  <1>3. tty' \in [Dongles -> Ports \cup {None}] /\ tty'[d] = p
        /\ \A e \in Dongles : e # d => tty'[e] = tty[e]
    BY <1>2
  <1>4. p \in {tty[d], None} \/ \A e \in Dongles : tty[e] # p
    BY <1>2 DEF Used
  <1>5. taken' = taken \cup {q \in Ports : \E e \in Dongles : tty[e] = q /\ tty'[e] # q}
    BY DEF Enumerates
  <1>6. tty[d] \in Ports => tty'[d] = tty[d] \/ tty[d] \in taken'
    BY <1>5
  <1>7. taken' \subseteq taken \cup {tty[d]}
    <2> SUFFICES ASSUME NEW q \in Ports, NEW e \in Dongles, tty[e] = q, tty'[e] # q
                 PROVE  q = tty[d]
      BY <1>5
    <2> QED
      BY <1>3
  <1> QED
    BY <1>1, <1>2, <1>3, <1>4, <1>5, <1>6, <1>7

\* Whatever enumerates where it is plugged in, BusOK stays, and the tty of the
\* target has changed hands or is where it was.
LEMMA EnumerationKeeps ==
  ASSUME BusTypes, BusOK, NEW d \in Dongles, NEW m \in Modes, Enumerates(d, m),
         place' \in [Dongles -> Paths \cup {None}],
         \A e \in Dongles : e # d => place'[e] = place[e],
         m # "gone" => place'[d] # None,
         \A e \in Dongles : e # d /\ place'[d] # None => place'[d] # place'[e],
         place'[d] = place[d] \/ tty[d] = None \/ m = "gone",
         steady' \in BOOLEAN
  PROVE  /\ BusTypes' /\ BusOK'
         /\ \A q \in Ports : \A path : Leads(q, path) => Leads(q, path)'
  <1>1. /\ mode' \in [Dongles -> Modes] /\ mode'[d] = m
        /\ tty' \in [Dongles -> Ports \cup {None}]
        /\ \A e \in Dongles : e # d => tty'[e] = tty[e] /\ mode'[e] = mode[e]
        /\ m # "gone" <=> tty'[d] # None
        /\ tty'[d] \in {tty[d], None} \/ \A e \in Dongles : tty[e] # tty'[d]
        /\ taken \subseteq taken'
        /\ tty[d] \in Ports => tty'[d] = tty[d] \/ tty[d] \in taken'
    BY Enumeration
  <1>2. BusTypes'
    BY <1>1 DEF BusTypes
  <1>3. \A e, f \in Dongles : place'[e] # None /\ place'[e] = place'[f] => e = f
    BY DEF BusOK
  <1>4. \A e, f \in Dongles : tty'[e] # None /\ tty'[e] = tty'[f] => e = f
    BY <1>1 DEF BusOK
  <1>5. \A e \in Dongles : mode'[e] # "gone" <=> tty'[e] # None
    BY <1>1 DEF BusOK
  <1>6. \A e \in Dongles : tty'[e] # None => place'[e] # None
    BY <1>1 DEF BusOK
  <1>7. ASSUME NEW q \in Ports, NEW path, Leads(q, path)
        PROVE  Leads(q, path)'
    <2>1. CASE q \in taken
      BY <1>1, <2>1 DEF Leads
    <2>2. ASSUME NEW e \in Dongles, tty[e] = q, place[e] = path
          PROVE  Leads(q, path)'
      <3>1. q # None
        BY NoneAssumption
      <3>2. CASE e # d
        BY <1>1, <2>2, <3>2 DEF Leads
      <3>3. CASE e = d
        BY <1>1, <2>2, <3>1, <3>3 DEF Leads
      <3> QED
        BY <3>2, <3>3
    <2> QED
      BY <1>7, <2>1, <2>2 DEF Leads
  <1> QED
    BY <1>2, <1>3, <1>4, <1>5, <1>6, <1>7 DEF BusOK

\* What happens on the bus while the operation waits: the user moved a dongle, a
\* bootloader gave up, or another dongle came up where it was plugged in.
LEMMA BusKeeps ==
  ASSUME IInv, UNCHANGED op, BusTypes', BusOK',
         \A q \in Ports : \A path : Leads(q, path) => Leads(q, path)',
         \/ steady' = FALSE
         \/ /\ UNCHANGED <<steady, place>>
            /\ \E d \in Dongles, m \in Modes : mode[d] # "dfu" /\ Enumerates(d, m)
  PROVE  IInv'
  <1>0. UNCHANGED <<pc, selector, target>>
    BY DEF op
  <1>1. TargetOK'
    <2> SUFFICES ASSUME pc \in Targeted
                 PROVE  target.port \in Ports /\ Leads(target.port, selector.path)'
      BY <1>0 DEF TargetOK, Targeted
    <2> DEFINE q == target.port
               path == selector.path
    <2>1. q \in Ports /\ Leads(q, path)
      BY DEF IInv, TargetOK
    <2>2. q' = q /\ path' = path
      BY <1>0
    <2>3. \A r \in Ports : \A other :
            \/ r \in taken
            \/ \E d \in Dongles : tty[d] = r /\ place[d] = other
            => \/ r \in taken'
               \/ \E d \in Dongles : tty'[d] = r /\ place'[d] = other
      BY DEF Leads
    <2> QED
      BY <2>1, <2>2, <2>3 DEF Leads
  <1>2. SteadyOK'
    <2>1. CASE steady' = FALSE
      BY <2>1 DEF SteadyOK
    <2>2. ASSUME UNCHANGED <<steady, place>>, NEW d \in Dongles, NEW m \in Modes,
                 mode[d] # "dfu", Enumerates(d, m)
          PROVE  SteadyOK'
      <3>1. ASSUME Kept(target.port) PROVE Kept(target.port)'
        <4>1. PICK e \in Dongles : mode[e] = "dfu" /\ tty[e] = target.port
          BY <3>1 DEF Kept
        <4>2. e # d /\ tty[e] # None
          BY <2>2, <4>1 DEF IInv, BusOK
        <4>3. tty'[e] = tty[e] /\ mode'[e] = mode[e] /\ taken' \subseteq taken \cup {tty[d]}
          BY <2>2, <4>2, Enumeration DEF IInv
        <4>4. tty[d] # tty[e]
          BY <4>2 DEF IInv, BusOK
        <4> QED
          BY <1>0, <3>1, <4>1, <4>3, <4>4 DEF Kept
      <3> QED
        BY <1>0, <2>2, <3>1 DEF IInv, SteadyOK, Selected
    <2> QED
      BY <2>1, <2>2
  <1> QED
    BY <1>1, <1>2 DEF IInv

LEMMA BusStep == ASSUME IInv, Bus PROVE IInv'
  <1> USE NoneAssumption
  <1>0. \A i : Personalities(i) \subseteq Modes
    BY DEF Personalities, Modes
  <1>1. ASSUME NEW d \in Dongles, Unplug(d) PROVE IInv'
    <2>1. /\ Enumerates(d, "gone") /\ steady' = FALSE /\ UNCHANGED op
          /\ place' = [place EXCEPT ![d] = None]
      BY <1>1 DEF Unplug, Move
    <2>2. /\ place' \in [Dongles -> Paths \cup {None}] /\ place'[d] = None
          /\ \A e \in Dongles : e # d => place'[e] = place[e]
      BY <2>1 DEF IInv, BusTypes
    <2>3. /\ BusTypes' /\ BusOK'
          /\ \A q \in Ports : \A path : Leads(q, path) => Leads(q, path)'
      BY <2>1, <2>2, EnumerationKeeps DEF IInv, Modes
    <2> QED
      BY <2>1, <2>3, BusKeeps
  <1>2. ASSUME NEW d \in Dongles, Settle(d) \/ Restart(d) PROVE IInv'
    <2>1. PICK m \in Personalities(image[d]) : Enumerates(d, m)
      BY <1>2 DEF Settle, Restart
    <2>2. m \in Modes
      BY <1>0
    <2>3. /\ UNCHANGED <<place, op>>
          /\ steady' = (steady /\ mode[d] # "dfu") \/ (mode[d] = "gone" /\ steady' = steady)
      BY <1>2 DEF Settle, Restart
    <2>4. place[d] # None
      BY <1>2 DEF Settle, Restart, IInv, BusOK
    <2>5. /\ place' \in [Dongles -> Paths \cup {None}] /\ steady' \in BOOLEAN
          /\ place'[d] = place[d] /\ place'[d] # None
          /\ \A e \in Dongles : e # d => place'[e] = place[e] /\ place'[d] # place'[e]
      BY <2>3, <2>4 DEF IInv, BusTypes, BusOK
    <2>6. /\ BusTypes' /\ BusOK'
          /\ \A q \in Ports : \A path : Leads(q, path) => Leads(q, path)'
      BY <2>1, <2>2, <2>5, EnumerationKeeps DEF IInv
    <2>7. steady' = FALSE \/ (steady' = steady /\ mode[d] # "dfu")
      BY <2>3 DEF IInv, BusTypes
    <2> QED
      BY <2>1, <2>2, <2>3, <2>6, <2>7, BusKeeps
  <1>3. ASSUME NEW d \in Dongles, NEW path \in Paths, Plug(d, path) PROVE IInv'
    <2>1. PICK m \in Personalities(image[d]) : Enumerates(d, m)
      BY <1>3 DEF Plug
    <2>2. m \in Modes
      BY <1>0
    <2>3. /\ place[d] = None /\ place' = [place EXCEPT ![d] = path]
          /\ \A e \in Dongles : place[e] # path
          /\ steady' = FALSE /\ UNCHANGED op
      BY <1>3 DEF Plug, Move
    <2>4. /\ place' \in [Dongles -> Paths \cup {None}] /\ place'[d] = path
          /\ \A e \in Dongles : e # d => place'[e] = place[e] /\ place'[d] # place'[e]
          /\ tty[d] = None /\ place'[d] # None /\ steady' \in BOOLEAN
      BY <2>3 DEF IInv, BusTypes, BusOK
    <2>5. /\ BusTypes' /\ BusOK'
          /\ \A q \in Ports : \A other : Leads(q, other) => Leads(q, other)'
      BY <2>1, <2>2, <2>3, <2>4, EnumerationKeeps DEF IInv
    <2> QED
      BY <2>3, <2>5, BusKeeps
  <1> QED
    BY <1>1, <1>2, <1>3 DEF Bus

-----------------------------------------------------------------------------
(***************************************************************************)
(* The steps of the operation.                                             *)
(***************************************************************************)
\* A step that leaves the bus alone and does not arrive at a target.
LEMMA QuietStep ==
  ASSUME IInv, UNCHANGED <<place, mode, tty>>, pc' \notin Targeted, steady' \in BOOLEAN,
         steady' => pc' \notin {"recover", "check"},
         steady' /\ pc' \in Selected => \E d \in Named : place[d] = selector'.path
  PROVE  IInv'
  <1>1. BusTypes' /\ BusOK'
    BY DEF IInv, BusTypes, BusOK
  <1>2. TargetOK' /\ SteadyOK'
    BY DEF TargetOK, SteadyOK, Targeted, Selected
  <1> QED
    BY <1>1, <1>2 DEF IInv

\* One that goes on with what is selected.
LEMMA SteadyGoesOn ==
  ASSUME IInv, UNCHANGED <<place, mode, tty, steady>>,
         pc' \notin Targeted, pc' \notin {"recover", "check"},
         pc' \in Selected => pc \in Selected /\ selector' = selector
  PROVE  IInv'
  <1>1. steady' \in BOOLEAN
    BY DEF IInv, BusTypes
  <1>2. steady' /\ pc' \in Selected => \E d \in Named : place[d] = selector'.path
    BY DEF IInv, SteadyOK
  <1> QED
    BY <1>1, <1>2, QuietStep

\* A step in which a dongle reacts, and the operation goes on without a target.
LEMMA Reaction ==
  ASSUME IInv, NEW d \in Dongles, tty[d] # None, NEW m \in Modes, Enumerates(d, m),
         UNCHANGED <<place, steady>>,
         pc' \notin Targeted, pc' \notin {"recover", "check"},
         pc' \in Selected => pc \in Selected /\ selector' = selector
  PROVE  IInv'
  <1>1. /\ place' \in [Dongles -> Paths \cup {None}] /\ steady' \in BOOLEAN
        /\ place'[d] = place[d] /\ place'[d] # None
        /\ \A e \in Dongles : e # d => place'[e] = place[e] /\ place'[d] # place'[e]
    BY DEF IInv, BusTypes, BusOK
  <1>2. BusTypes' /\ BusOK'
    BY <1>1, EnumerationKeeps DEF IInv
  <1>3. TargetOK' /\ SteadyOK'
    BY DEF IInv, TargetOK, SteadyOK, Targeted, Selected
  <1> QED
    BY <1>2, <1>3 DEF IInv

LEMMA BeginStep == ASSUME IInv, Begin PROVE IInv'
  <1>1. /\ UNCHANGED <<place, mode, tty>> /\ steady' \in BOOLEAN
        /\ pc' \in {"ask", "recover"} /\ (steady' => pc' = "ask")
    BY DEF Begin, bus
  <1> QED
    BY <1>1, QuietStep DEF Targeted, Selected

LEMMA ConsiderStep == ASSUME IInv, Consider PROVE IInv'
  <1>1. UNCHANGED <<place, mode, tty>> /\ steady' \in BOOLEAN
    BY DEF Consider, bus, IInv, BusTypes
  <1>2. pc' \in {"idle", "select", "recover"} /\ (steady' => pc' # "recover")
    BY DEF Consider, Goto, Finish
  <1> QED
    BY <1>1, <1>2, QuietStep DEF Targeted, Selected

LEMMA GetVersionStep ==
  ASSUME IInv, NEW asking, NEW next,
         <<asking, next>> \in {<<"ask", "consider">>, <<"verify", "judge">>}, GetVersion(asking, next)
  PROVE  IInv'
  <1>1. UNCHANGED <<place, mode, tty, steady>> /\ pc' = next
    BY DEF GetVersion, Goto, bus
  <1>2. steady' \in BOOLEAN
    BY <1>1 DEF IInv, BusTypes
  <1>3. steady' /\ pc' \in Selected => \E d \in Named : place[d] = selector'.path
    BY <1>1 DEF GetVersion, Goto, IInv, SteadyOK, Selected
  <1> QED
    BY <1>1, <1>2, <1>3, QuietStep DEF Targeted

\* The configured tty leads to a configured dongle, on whose port the
\* bootloader is then expected.
LEMMA SelectStep == ASSUME IInv, Select PROVE IInv'
  <1>1. PICK d \in Named : selector' = [path |-> place[d], serial |-> config.serial]
    BY DEF Select, Answering
  <1>2. UNCHANGED <<place, mode, tty, steady>> /\ pc' = "reset"
    BY DEF Select, bus
  <1>3. steady' \in BOOLEAN /\ selector'.path = place[d]
    BY <1>1, <1>2 DEF IInv, BusTypes
  <1> QED
    BY <1>2, <1>3, QuietStep DEF Targeted

LEMMA ResetStep == ASSUME IInv, ResetBootloader PROVE IInv'
  <1>1. /\ pc = "reset" /\ pc' = "enumerate"
        /\ UNCHANGED <<place, selector, steady>>
    BY DEF ResetBootloader, Goto
  <1>2. PICK d \in Answering : \/ \E m \in {"dfu", "gone"} : Enumerates(d, m)
                              \/ UNCHANGED <<mode, tty, taken>>
    BY DEF ResetBootloader
  <1>3. d \in Dongles /\ tty[d] # None
    BY DonglesAssumption DEF Answering, IInv, BusOK
  <1>4. CASE \E m \in {"dfu", "gone"} : Enumerates(d, m)
    <2>1. PICK m \in Modes : Enumerates(d, m)
      BY <1>4 DEF Modes
    <2> QED
      BY <1>1, <1>3, <2>1, Reaction DEF Targeted, Selected
  <1>5. CASE UNCHANGED <<mode, tty, taken>>
    <2>1. steady' \in BOOLEAN
      BY <1>1 DEF IInv, BusTypes
    <2>2. steady' => \E e \in Named : place[e] = selector'.path
      BY <1>1 DEF IInv, SteadyOK, Selected
    <2> QED
      BY <1>1, <1>5, <2>1, <2>2, QuietStep DEF Targeted
  <1> QED
    BY <1>2, <1>4, <1>5

LEMMA RecoverStep == ASSUME IInv, Recover PROVE IInv'
  <1>1. UNCHANGED <<place, mode, tty, steady>> /\ pc = "recover" /\ pc' = "check"
    BY DEF Recover, bus
  <1>2. steady' = FALSE
    BY <1>1 DEF IInv, SteadyOK, BusTypes
  <1> QED
    BY <1>1, <1>2, QuietStep DEF Targeted

\* The endpoint that is found is on the selected port and has not changed hands.
LEMMA EnumerateStep ==
  ASSUME IInv, NEW at, NEW next, Enumerate(at, next),
         <<at, next>> \in {<<"check", "confirm">>, <<"enumerate", "images">>, <<"verify", "reboot">>}
  PROVE  IInv'
  <1>1. PICK d \in Matching(selector) :
          tty[d] # None /\ target' = [serial |-> DfuSerial[d], port |-> tty[d]]
    BY DEF Enumerate
  <1>2. /\ pc = at /\ pc' = next /\ taken' = {}
        /\ UNCHANGED <<place, mode, tty, selector, steady>>
    BY DEF Enumerate, bus
  <1>3. BusTypes' /\ BusOK'
    BY <1>2 DEF IInv, BusTypes, BusOK
  <1>4. /\ d \in Dongles /\ place[d] = selector.path /\ mode[d] = "dfu"
        /\ target'.port = tty[d] /\ tty[d] \in Ports
    BY <1>1 DEF Matching, IInv, BusTypes
  <1>5. TargetOK'
    <2>1. Leads(target.port, selector.path)'
      BY <1>2, <1>4 DEF Leads
    <2> QED
      BY <1>4, <2>1 DEF TargetOK
  <1>6. Kept(target.port)'
    BY <1>2, <1>4 DEF Kept
  <1>7. SteadyOK'
    BY <1>2, <1>6 DEF IInv, SteadyOK, Selected
  <1> QED
    BY <1>3, <1>5, <1>7 DEF IInv

LEMMA GetImagesStep ==
  ASSUME IInv, NEW at, NEW next, <<at, next>> \in {<<"confirm", "enumerate">>, <<"images", "transfer">>},
         GetImages(at, next)
  PROVE  IInv'
  <1>1. pc = at /\ pc' = next /\ UNCHANGED <<place, mode, tty, selector, target, steady, taken>>
    BY DEF GetImages, Goto, bus
  <1>2. BusTypes' /\ BusOK'
    BY <1>1 DEF IInv, BusTypes, BusOK
  <1>3. TargetOK'
    BY <1>1 DEF IInv, TargetOK, Targeted, Leads
  <1>4. SteadyOK'
    BY <1>1 DEF IInv, SteadyOK, Selected, Kept
  <1> QED
    BY <1>2, <1>3, <1>4 DEF IInv

LEMMA ProbeAgainStep == ASSUME IInv, ProbeAgain PROVE IInv'
  <1>1. pc = "images" /\ pc' = "enumerate" /\ UNCHANGED <<place, mode, tty, selector, steady>>
    BY DEF ProbeAgain, Goto, bus
  <1>2. steady' \in BOOLEAN /\ (steady' => \E d \in Named : place[d] = selector'.path)
    BY <1>1 DEF IInv, BusTypes, SteadyOK, Selected
  <1> QED
    BY <1>1, <1>2, QuietStep DEF Targeted

LEMMA TransferStep == ASSUME IInv, Transfer PROVE IInv'
  <1>1. pc = "transfer" /\ pc' \in {"verify", "idle"} /\ UNCHANGED <<place, steady>>
        /\ (pc' = "verify" => selector' = selector)
    BY DEF Transfer, Goto, Finish
  <1>2. CASE Endpoint(target) = {}
    <2>1. UNCHANGED <<mode, tty>>
      BY <1>2 DEF Transfer
    <2> QED
      BY <1>1, <2>1, SteadyGoesOn DEF Targeted, Selected
  <1>3. CASE Endpoint(target) # {}
    <2>1. PICK d \in Endpoint(target) : \E m \in Personalities(image'[d]) : Enumerates(d, m)
      BY <1>3 DEF Transfer
    <2>2. PICK m \in Modes : Enumerates(d, m)
      BY <2>1 DEF Personalities, Modes
    <2>3. d \in Dongles /\ tty[d] # None
      BY DEF Endpoint, IInv, BusOK
    <2> QED
      BY <1>1, <2>2, <2>3, Reaction DEF Targeted, Selected
  <1> QED
    BY <1>2, <1>3

LEMMA VerifyStep == ASSUME IInv, Verify PROVE IInv'
  <1>1. UNCHANGED <<place, mode, tty, steady>> /\ pc = "judge" /\ pc' \in {"idle", "verify"}
        /\ (pc' = "verify" => selector' = selector)
    BY DEF Verify, Finish, Goto, bus
  <1> QED
    BY <1>1, SteadyGoesOn DEF Targeted, Selected

LEMMA RebootStep == ASSUME IInv, RebootApplication PROVE IInv'
  <1>1. pc = "reboot" /\ pc' \in {"verify", "idle"} /\ UNCHANGED <<place, steady>>
        /\ (pc' = "verify" => selector' = selector)
    BY DEF RebootApplication, Finish
  <1>2. CASE UNCHANGED <<mode, tty, taken>>
    BY <1>1, <1>2, SteadyGoesOn DEF Targeted, Selected
  <1>3. ASSUME NEW d \in Endpoint(target), NEW m \in Personalities(image[d]), Enumerates(d, m)
        PROVE  IInv'
    <2>1. m \in Modes
      BY DEF Personalities, Modes
    <2>2. d \in Dongles /\ tty[d] # None
      BY DEF Endpoint, IInv, BusOK
    <2> QED
      BY <1>1, <1>3, <2>1, <2>2, Reaction DEF Targeted, Selected
  <1> QED
    BY <1>2, <1>3 DEF RebootApplication

LEMMA EndStep == ASSUME IInv, ExpireProbe \/ ExpireVerification \/ Fail PROVE IInv'
  <1>1. UNCHANGED <<place, mode, tty, steady>> /\ pc' = "idle"
    BY DEF ExpireProbe, ExpireVerification, Fail, Finish, bus
  <1>2. steady' \in BOOLEAN
    BY <1>1 DEF IInv, BusTypes
  <1> QED
    BY <1>1, <1>2, QuietStep DEF Targeted, Selected

\* Every step keeps the invariant.
LEMMA IInvStep == IInv /\ [Next]_vars => IInv'
  <1> SUFFICES ASSUME IInv, [Next]_vars PROVE IInv'
    OBVIOUS
  <1>1. CASE Bus
    BY <1>1, BusStep
  <1>2. CASE Begin
    BY <1>2, BeginStep
  <1>3. CASE Spinel
    BY <1>3, GetVersionStep DEF Spinel
  <1>4. CASE Probe
    BY <1>4, EnumerateStep, GetImagesStep, ProbeAgainStep DEF Probe
  <1>5. CASE Consider \/ Select \/ ResetBootloader \/ Recover
    BY <1>5, ConsiderStep, SelectStep, ResetStep, RecoverStep
  <1>6. CASE Transfer \/ Verify \/ RebootApplication
    BY <1>6, TransferStep, VerifyStep, RebootStep
  <1>7. CASE ExpireProbe \/ EndVerification \/ Fail
    BY <1>7, EndStep, EnumerateStep DEF EndVerification, ProbeReboot
  <1>8. CASE UNCHANGED vars
    BY <1>8 DEF vars, bus, op, IInv, BusTypes, BusOK, TargetOK, SteadyOK, Leads, Kept
  <1> QED
    BY <1>1, <1>2, <1>3, <1>4, <1>5, <1>6, <1>7, <1>8 DEF Next, Proceed

LEMMA Invariance == Spec => []IInv
  BY IInvInit, IInvStep, PTL DEF Spec

-----------------------------------------------------------------------------
(***************************************************************************)
(* Types.  A broken image never runs, so whoever answers holds a version;  *)
(* an operation that was begun has a version to install.                   *)
(***************************************************************************)
ImageOK ==
  /\ \A d \in Dongles : mode[d] = "app" => image[d] # Broken
  /\ pc # "idle" => wanted \in Texts

TypeInv == TypeOK /\ ImageOK

\* The invariant holds initially.
LEMMA TypeInit == Init => TypeInv
  <1> SUFFICES ASSUME Init PROVE TypeInv
    OBVIOUS
  <1>1. /\ selector \in [path : Paths \cup {None}, serial : {c.serial : c \in Configs} \cup {None}]
        /\ target \in [serial : {DfuSerial[d] : d \in Dongles} \cup {None}, port : Ports \cup {None}]
    BY DEF Init, NoSelector, NoTarget
  <1>2. /\ place \in [Dongles -> Paths \cup {None}] /\ tty \in [Dongles -> Ports \cup {None}]
        /\ mode \in [Dongles -> {"app", "dfu", "gone"}] /\ image \in [Dongles -> Texts]
    BY DEF Init
  <1>3. moves \in 0..MaxMoves
    BY MovesAssumption DEF Init
  <1>4. \A d \in Dongles : image[d] # Broken
    BY <1>2, DonglesAssumption
  <1> QED
    BY <1>1, <1>2, <1>3, <1>4 DEF Init, TypeInv, TypeOK, ImageOK, Readings

\* A dongle that enumerates as what its image allows keeps the bus typed.
LEMMA EnumerationTyped ==
  ASSUME TypeOK, NEW d \in Dongles, NEW i, NEW m \in Personalities(i), Enumerates(d, m)
  PROVE  /\ mode' \in [Dongles -> {"app", "dfu", "gone"}]
         /\ tty' \in [Dongles -> Ports \cup {None}] /\ taken' \subseteq Ports
         /\ mode'[d] = "app" => i # Broken
         /\ \A e \in Dongles : e # d => mode'[e] = mode[e]
  <1>1. BusTypes /\ m \in Modes /\ (m = "app" => i # Broken)
    BY DEF TypeOK, BusTypes, Personalities, Modes
  <1>2. taken' \subseteq Ports
    BY DEF TypeOK, Enumerates
  <1>3. /\ mode' \in [Dongles -> Modes] /\ mode'[d] = m
        /\ tty' \in [Dongles -> Ports \cup {None}]
        /\ \A e \in Dongles : e # d => mode'[e] = mode[e]
    BY <1>1, Enumeration
  <1> QED
    BY <1>1, <1>2, <1>3 DEF Modes

\* What happens on the bus keeps the types.
LEMMA BusTyped == ASSUME TypeInv, Bus PROVE TypeInv'
  <1>0. "gone" \in Personalities(Broken) /\ TypeOK /\ ImageOK
    BY DEF Personalities, TypeInv
  <1>1. ASSUME NEW d \in Dongles, NEW m \in Personalities(image[d]), Enumerates(d, m),
               place' \in [Dongles -> Paths \cup {None}], moves' \in 0..MaxMoves,
               steady' \in BOOLEAN, UNCHANGED <<image, config, op>>
        PROVE TypeInv'
    <2>1. /\ mode' \in [Dongles -> {"app", "dfu", "gone"}]
          /\ tty' \in [Dongles -> Ports \cup {None}] /\ taken' \subseteq Ports
          /\ mode'[d] = "app" => image[d] # Broken
          /\ \A e \in Dongles : e # d => mode'[e] = mode[e]
      BY <1>0, <1>1, EnumerationTyped
    <2>2. ImageOK'
      BY <1>0, <1>1, <2>1 DEF ImageOK, op
    <2> QED
      BY <1>0, <1>1, <2>1, <2>2 DEF TypeInv, TypeOK, op
  <1>2. ASSUME Move PROVE moves' \in 0..MaxMoves /\ steady' \in BOOLEAN
    <2>1. moves \in 0..MaxMoves
      BY <1>0 DEF TypeOK
    <2>2. moves < MaxMoves /\ moves' = moves + 1 /\ steady' = FALSE
      BY <1>2 DEF Move
    <2>3. moves + 1 \in 0..MaxMoves
      <3> HIDE <1>2
      <3> QED
        BY <2>1, <2>2, MovesAssumption
    <2> QED
      BY <2>2, <2>3
  <1>3. ASSUME NEW d \in Dongles, Unplug(d) PROVE TypeInv'
    <2>1. place' \in [Dongles -> Paths \cup {None}] /\ "gone" \in Personalities(image[d])
      BY <1>0, <1>3 DEF Unplug, TypeOK, Personalities
    <2> QED
      BY <1>1, <1>2, <1>3, <2>1 DEF Unplug, Move
  <1>4. ASSUME NEW d \in Dongles, Settle(d) \/ Restart(d) PROVE TypeInv'
    <2>1. PICK m \in Personalities(image[d]) : Enumerates(d, m)
      BY <1>4 DEF Settle, Restart
    <2>2. UNCHANGED <<place, image, config, op>> /\ steady' \in BOOLEAN
      BY <1>0, <1>4 DEF Settle, Restart, TypeOK
    <2>3. moves' \in 0..MaxMoves
      <3>1. moves \in 0..MaxMoves
        BY <1>0 DEF TypeOK
      <3>2. moves' = moves \/ (moves < MaxMoves /\ moves' = moves + 1)
        BY <1>4 DEF Settle, Restart
      <3> QED
        BY <3>1, <3>2, MovesAssumption
    <2> QED
      BY <1>0, <1>1, <2>1, <2>2, <2>3 DEF TypeOK
  <1>5. ASSUME NEW d \in Dongles, NEW path \in Paths, Plug(d, path) PROVE TypeInv'
    <2>1. place' \in [Dongles -> Paths \cup {None}]
      BY <1>0, <1>5 DEF Plug, TypeOK
    <2>2. PICK m \in Personalities(image[d]) : Enumerates(d, m)
      BY <1>5 DEF Plug
    <2> QED
      BY <1>1, <1>2, <1>5, <2>1, <2>2 DEF Plug, Move
  <1> QED
    BY <1>3, <1>4, <1>5 DEF Bus

\* A step of the operation that leaves the dongles alone.
LEMMA QuietTyped ==
  ASSUME TypeInv, UNCHANGED <<place, mode, tty, image, moves, config>>,
         pc' \in {"idle", "ask", "consider", "select", "reset", "recover", "check", "confirm",
                  "enumerate", "images", "transfer", "verify", "judge", "reboot"},
         wanted' \in Texts \cup {Unread}, pc' # "idle" => wanted' \in Texts,
         selector' \in [path : Paths \cup {None}, serial : {c.serial : c \in Configs} \cup {None}],
         target' \in [serial : {DfuSerial[d] : d \in Dongles} \cup {None}, port : Ports \cup {None}],
         read' \in Readings, last' \in BOOLEAN, taken' \subseteq Ports, steady' \in BOOLEAN
  PROVE  TypeInv'
  BY DEF TypeInv, TypeOK, ImageOK

\* A step of the operation to which one dongle reacts as what its new image
\* allows.
LEMMA ReactionTyped ==
  ASSUME TypeInv, NEW d \in Dongles, NEW m \in Personalities(image'[d]), Enumerates(d, m),
         image' \in [Dongles -> Texts \cup {Broken}],
         \A e \in Dongles : e # d => image'[e] = image[e],
         UNCHANGED <<place, moves, config, read, steady>>,
         pc' \in {"enumerate", "verify", "idle"}, last' \in BOOLEAN,
         wanted' \in Texts \cup {Unread}, pc' # "idle" => wanted' \in Texts,
         selector' \in [path : Paths \cup {None}, serial : {c.serial : c \in Configs} \cup {None}],
         target' \in [serial : {DfuSerial[e] : e \in Dongles} \cup {None}, port : Ports \cup {None}]
  PROVE  TypeInv'
  <1>1. /\ mode' \in [Dongles -> {"app", "dfu", "gone"}]
        /\ tty' \in [Dongles -> Ports \cup {None}] /\ taken' \subseteq Ports
        /\ mode'[d] = "app" => image'[d] # Broken
        /\ \A e \in Dongles : e # d => mode'[e] = mode[e]
    BY EnumerationTyped DEF TypeInv
  <1>2. ImageOK'
    BY <1>1 DEF TypeInv, ImageOK
  <1> QED
    BY <1>1, <1>2 DEF TypeInv, TypeOK

\* What a dongle that answers is read as.
LEMMA GetVersionTyped ==
  ASSUME TypeInv, NEW asking, NEW next, <<asking, next>> \in {<<"ask", "consider">>, <<"verify", "judge">>},
         GetVersion(asking, next)
  PROVE  TypeInv'
  <1>1. read' \in Readings
    <2>1. CASE read' = NoRead
      BY <2>1 DEF Readings
    <2>2. ASSUME NEW d \in Answering, read' \in ReadsOf(image[d]) PROVE read' \in Readings
      <3>1. image[d] \in Texts
        BY DonglesAssumption DEF Answering, TypeInv, TypeOK, ImageOK
      <3> QED
        BY <2>2, <3>1 DEF Readings
    <2> QED
      BY <2>1, <2>2 DEF GetVersion
  <1>2. /\ pc = asking /\ pc' = next
        /\ UNCHANGED <<place, mode, tty, image, moves, config, wanted, selector, target, last, taken, steady>>
    BY DEF GetVersion, Goto, bus
  <1> QED
    BY <1>1, <1>2, QuietTyped DEF TypeInv, TypeOK, ImageOK

\* The steps of the operation that leave the dongles alone keep the types.
LEMMA OperationTyped ==
  ASSUME TypeInv,
         Begin \/ Consider \/ Select \/ Recover \/ Probe \/ Verify
         \/ ExpireProbe \/ EndVerification \/ Fail
  PROVE  TypeInv'
  <1>0. TypeOK /\ ImageOK /\ NoRead \in Readings
    BY DEF TypeInv, Readings
  <1>1. CASE Begin
    BY <1>0, <1>1, QuietTyped DEF Begin, bus, TypeOK, ImageOK
  <1>2. ASSUME Finish PROVE
          /\ pc' = "idle" /\ wanted' = Unread /\ last' \in BOOLEAN
          /\ selector' \in [path : Paths \cup {None}, serial : {c.serial : c \in Configs} \cup {None}]
          /\ target' \in [serial : {DfuSerial[d] : d \in Dongles} \cup {None}, port : Ports \cup {None}]
    BY <1>2 DEF Finish, NoSelector, NoTarget
  <1>3. CASE Consider
    <2>1. CASE Finish
      BY <1>0, <1>2, <1>3, <2>1, QuietTyped DEF Consider, bus, TypeOK
    <2>2. CASE Goto("select") \/ Goto("recover")
      BY <1>0, <1>3, <2>2, QuietTyped DEF Consider, Goto, bus, TypeOK, ImageOK
    <2> QED
      BY <1>3, <2>1, <2>2 DEF Consider
  <1>4. CASE Select
    <2>1. PICK d \in Answering : selector' = [path |-> place[d], serial |-> config.serial]
      BY <1>4 DEF Select
    <2>2. selector' \in [path : Paths \cup {None}, serial : {c.serial : c \in Configs} \cup {None}]
      BY <1>0, <2>1, DonglesAssumption DEF Answering, TypeOK
    <2> QED
      BY <1>0, <1>4, <2>2, QuietTyped DEF Select, bus, TypeOK, ImageOK
  <1>5. CASE Recover
    <2>1. selector' \in [path : Paths \cup {None}, serial : {c.serial : c \in Configs} \cup {None}]
      BY <1>0, <1>5, ConfigsAssumption DEF Recover, TypeOK
    <2> QED
      BY <1>0, <1>5, <2>1, QuietTyped DEF Recover, bus, TypeOK, ImageOK
  <1>6. ASSUME NEW at, NEW next, Enumerate(at, next),
               <<at, next>> \in {<<"check", "confirm">>, <<"enumerate", "images">>, <<"verify", "reboot">>}
        PROVE TypeInv'
    <2>1. target' \in [serial : {DfuSerial[d] : d \in Dongles} \cup {None}, port : Ports \cup {None}]
      BY <1>0, <1>6 DEF Enumerate, Matching, TypeOK
    <2> QED
      BY <1>0, <1>6, <2>1, QuietTyped DEF Enumerate, bus, TypeOK, ImageOK
  <1>7. ASSUME NEW at, NEW next, <<at, next>> \in {<<"confirm", "enumerate">>, <<"images", "transfer">>},
               GetImages(at, next)
        PROVE TypeInv'
    BY <1>0, <1>7, QuietTyped DEF GetImages, Goto, bus, TypeOK, ImageOK
  <1>8. CASE ProbeAgain
    BY <1>0, <1>8, QuietTyped DEF ProbeAgain, Goto, bus, TypeOK, ImageOK
  <1>9. CASE Verify
    <2>1. CASE Finish
      BY <1>0, <1>2, <1>9, <2>1, QuietTyped DEF Verify, bus, TypeOK
    <2>2. CASE Goto("verify")
      BY <1>0, <1>9, <2>2, QuietTyped DEF Verify, Goto, bus, TypeOK, ImageOK
    <2> QED
      BY <1>9, <2>1, <2>2 DEF Verify
  <1>10. CASE ExpireProbe \/ ExpireVerification \/ Fail
    BY <1>0, <1>2, <1>10, QuietTyped DEF ExpireProbe, ExpireVerification, Fail, bus, TypeOK
  <1> QED
    BY <1>1, <1>3, <1>4, <1>5, <1>6, <1>7, <1>8, <1>9, <1>10 DEF Probe, EndVerification, ProbeReboot

\* The steps to which a dongle reacts keep the types.
LEMMA ReactionsTyped ==
  ASSUME TypeInv, ResetBootloader \/ Transfer \/ RebootApplication
  PROVE  TypeInv'
  <1>0. TypeOK /\ ImageOK
    BY DEF TypeInv
  <1>1. CASE ResetBootloader
    <2>1. PICK d \in Answering : \/ \E m \in {"dfu", "gone"} : Enumerates(d, m)
                                 \/ UNCHANGED <<mode, tty, taken>>
      BY <1>1 DEF ResetBootloader
    <2>2. d \in Dongles /\ {"dfu", "gone"} \subseteq Personalities(image[d])
      BY DonglesAssumption DEF Answering, Personalities
    <2>3. /\ pc = "reset" /\ pc' = "enumerate"
          /\ UNCHANGED <<place, image, moves, config, wanted, selector, target, read, last, steady>>
      BY <1>1 DEF ResetBootloader, Goto
    <2>4. CASE UNCHANGED <<mode, tty, taken>>
      BY <1>0, <2>3, <2>4, QuietTyped DEF TypeOK, ImageOK
    <2>5. ASSUME NEW m \in {"dfu", "gone"}, Enumerates(d, m) PROVE TypeInv'
      BY <1>0, <2>2, <2>3, <2>5, ReactionTyped DEF TypeOK, ImageOK
    <2> QED
      BY <2>1, <2>4, <2>5
  <1>2. ASSUME pc # "idle",
               \/ Finish
               \/ pc' = "verify" /\ last' \in BOOLEAN /\ UNCHANGED <<wanted, selector, target>>
        PROVE
          /\ pc' \in {"verify", "idle"} /\ last' \in BOOLEAN
          /\ wanted' \in Texts \cup {Unread} /\ (pc' # "idle" => wanted' \in Texts)
          /\ selector' \in [path : Paths \cup {None}, serial : {c.serial : c \in Configs} \cup {None}]
          /\ target' \in [serial : {DfuSerial[d] : d \in Dongles} \cup {None}, port : Ports \cup {None}]
    <2>1. CASE Finish
      <3>1. /\ NoSelector \in [path : Paths \cup {None}, serial : {c.serial : c \in Configs} \cup {None}]
            /\ NoTarget \in [serial : {DfuSerial[d] : d \in Dongles} \cup {None}, port : Ports \cup {None}]
        BY DEF NoSelector, NoTarget
      <3> QED
        BY <2>1, <3>1 DEF Finish
    <2>2. CASE pc' = "verify" /\ last' \in BOOLEAN /\ UNCHANGED <<wanted, selector, target>>
      BY <1>0, <1>2, <2>2 DEF TypeOK, ImageOK
    <2> QED
      BY <1>2, <2>1, <2>2
  <1>3. CASE Transfer
    <2>1. pc = "transfer" /\ UNCHANGED <<place, moves, config, read, steady>>
          /\ (Goto("verify") \/ Finish)
      BY <1>3 DEF Transfer
    <2>2. Finish \/ (pc' = "verify" /\ last' \in BOOLEAN /\ UNCHANGED <<wanted, selector, target>>)
      BY <1>0, <2>1 DEF Goto, TypeOK
    <2>3. CASE Endpoint(target) = {}
      BY <1>0, <1>2, <1>3, <2>1, <2>2, <2>3, QuietTyped DEF Transfer, TypeOK
    <2>4. ASSUME Endpoint(target) # {} PROVE TypeInv'
      <3>1. PICK d \in Endpoint(target) :
              /\ \E i \in {image[d], Broken, wanted} : image' = [image EXCEPT ![d] = i]
              /\ \E m \in Personalities(image'[d]) : Enumerates(d, m)
        BY <1>3, <2>4 DEF Transfer
      <3>2. PICK m \in Personalities(image'[d]) : Enumerates(d, m)
        BY <3>1
      <3>3. /\ d \in Dongles /\ image' \in [Dongles -> Texts \cup {Broken}]
            /\ \A e \in Dongles : e # d => image'[e] = image[e]
        BY <1>0, <2>1, <3>1 DEF Endpoint, TypeOK, ImageOK
      <3> QED
        BY <1>2, <2>1, <2>2, <3>2, <3>3, ReactionTyped
    <2> QED
      BY <2>3, <2>4
  <1>4. CASE RebootApplication
    <2>1. pc = "reboot" /\ UNCHANGED <<place, image, moves, config, read, steady>>
          /\ (Finish \/ (pc' = "verify" /\ last' \in BOOLEAN /\ UNCHANGED <<wanted, selector, target>>))
      BY <1>4 DEF RebootApplication
    <2>2. CASE UNCHANGED <<mode, tty, taken>>
      BY <1>0, <1>2, <1>4, <2>1, <2>2, QuietTyped DEF RebootApplication, TypeOK
    <2>3. ASSUME NEW d \in Endpoint(target), NEW m \in Personalities(image[d]), Enumerates(d, m)
          PROVE  TypeInv'
      <3>1. d \in Dongles
        BY DEF Endpoint
      <3> QED
        BY <1>0, <1>2, <1>4, <2>1, <2>3, <3>1, ReactionTyped DEF RebootApplication, TypeOK
    <2> QED
      BY <1>4, <2>2, <2>3 DEF RebootApplication
  <1> QED
    BY <1>1, <1>3, <1>4

\* Every step keeps the types.
LEMMA TypeStep == TypeInv /\ [Next]_vars => TypeInv'
  <1> SUFFICES ASSUME TypeInv, [Next]_vars PROVE TypeInv'
    OBVIOUS
  <1>1. CASE UNCHANGED vars
    BY <1>1 DEF vars, bus, op, TypeInv, TypeOK, ImageOK
  <1>2. CASE Spinel
    BY <1>2, GetVersionTyped DEF Spinel
  <1> QED
    BY <1>1, <1>2, BusTyped, OperationTyped, ReactionsTyped DEF Next, Proceed

-----------------------------------------------------------------------------
(***************************************************************************)
(* The theorems.                                                           *)
(***************************************************************************)
\* Every variable stays in its range, for any number of dongles: what is read
\* comes from a dongle that holds a version, and what is selected is a port.
THEOREM TypeCorrect == Spec => []TypeOK
  <1>1. TypeInv => TypeOK
    BY DEF TypeInv
  <1> QED
    BY <1>1, TypeInit, TypeStep, PTL DEF Spec

\* The dongle with the endpoint's tty is on the selected port, unless the tty
\* changed hands after it was found.
LEMMA EndpointIsSelected ==
  ASSUME IInv, NEW d \in Dongles, Touched(d), target.port \notin taken
  PROVE  place[d] = selector.path /\ tty[d] # None
  <1>1. d \in Endpoint(target) /\ pc \in Targeted
    BY DEF Touched, Targeted
  <1>2. target.port \in Ports /\ tty[d] = target.port
    BY <1>1 DEF IInv, TargetOK, Endpoint
  <1>3. PICK e \in Dongles : tty[e] = target.port /\ place[e] = selector.path
    BY <1>1 DEF IInv, TargetOK, Leads
  <1>4. tty[d] # None
    BY <1>2, NoneAssumption
  <1>5. d = e
    BY <1>2, <1>3, <1>4 DEF IInv, BusOK
  <1> QED
    BY <1>3, <1>4, <1>5

\* dfu.py:319, the endpoint that passed the topology check: of any number of
\* dongles with one serial number, nrfdfu writes or reboots the one on the selected
\* port, if the tty did not change hands, and never one with another serial number.
THEOREM SelectedIsWritten == Spec => OnlyTheSelected
  <1>1. IInv /\ [Next]_vars => \A d \in Dongles : Touched(d) =>
          /\ DfuSerial[d] = target.serial
          /\ target.port \notin taken => place[d] = selector.path
    BY EndpointIsSelected DEF Touched, Endpoint
  <1>2. IInv /\ [Next]_vars => [\A d \in Dongles : Touched(d) =>
          /\ DfuSerial[d] = target.serial
          /\ target.port \notin taken => place[d] = selector.path]_vars
    BY <1>1
  <1> QED
    BY <1>2, Invariance, PTL DEF Spec, OnlyTheSelected

\* README.md:397-401, "excludes other Nordic DFU dongles attached to different
\* ports": an operation that went through the application writes the configured
\* dongle, as long as nobody moves a dongle and no bootloader gives up; the ttys
\* that other dongles take and give up by themselves do not matter.
THEOREM OthersAreExcluded == Spec => NamedIsWritten
  <1>1. IInv => \A d \in Dongles : Touched(d) /\ steady => d \in Named
    <2> SUFFICES ASSUME IInv, NEW d \in Dongles, Touched(d), steady PROVE d \in Named
      OBVIOUS
    <2>1. pc \in {"transfer", "reboot"} /\ target.port \notin taken
      BY DEF Touched, IInv, SteadyOK, Kept
    <2>2. PICK e \in Named : place[e] = selector.path
      BY <2>1 DEF IInv, SteadyOK, Selected
    <2>3. place[d] = selector.path /\ place[d] # None
      BY <2>1, EndpointIsSelected DEF IInv, BusOK
    <2> QED
      BY <2>2, <2>3, DonglesAssumption DEF IInv, BusOK
  <1>2. IInv /\ [Next]_vars => [\A d \in Dongles : Touched(d) /\ steady => d \in Named]_vars
    BY <1>1
  <1> QED
    BY <1>2, Invariance, PTL DEF Spec, NamedIsWritten

-----------------------------------------------------------------------------
(***************************************************************************)
(* What is read.                                                           *)
(***************************************************************************)
\* What is decoded of the bytes that may precede an answer, up to its first flag.
Ahead(noise) == Decode(noise \o <<Flag>>)

\* None of it is taken for an answer.
LEMMA NoiseIsNoAnswer ==
  ASSUME NEW noise \in Noise, MaxFrameBytes >= 4
  PROVE  /\ noise \in Seq(Byte)
         /\ \A i \in DOMAIN Ahead(noise) : ~IsAnswer(Ahead(noise)[i])
  <1>0. /\ NewDecoder \in Decoders /\ NewDecoder.yielded = <<>> /\ ~NewDecoder.inFrame
        /\ <<>> \in Seq(Byte) /\ MaxFrameBytes \in Nat /\ Flag \in Byte
    <2>1. <<>> \in Seq(Byte) /\ <<>> \in Seq(Seq(Byte))
      BY EmptySeq
    <2>2. NewDecoder \in Decoders
      BY <2>1, Zenon DEF NewDecoder, Decoders
    <2> QED
      BY <2>1, <2>2, FrameAssumption DEF NewDecoder, Byte, Flag
  <1>1. ASSUME NEW d \in Decoders, noise \in Seq(Byte), Feeds(NewDecoder, noise, d),
               ~d.inFrame \/ Len(d.frame) < 3, d.yielded = <<>>
        PROVE  \A i \in DOMAIN Ahead(noise) : ~IsAnswer(Ahead(noise)[i])
    <2>1. Ahead(noise) = <<>>
      BY <1>1, NothingEnds DEF Ahead
    <2>2. DOMAIN <<>> = {}
      OBVIOUS
    <2> QED
      BY <2>1, <2>2
  <1> DEFINE opened == [frame |-> <<>>, inFrame |-> TRUE, escaped |-> FALSE, yielded |-> <<>>]
  <1>2. Feeds(NewDecoder, <<Flag>>, opened) /\ opened \in Decoders /\ <<Flag>> \in Seq(Byte)
    <2>1. Ended(NewDecoder) = opened
      BY <1>0, OpenedDecoder DEF Ended
    <2> HIDE DEF opened
    <2> QED
      BY <1>0, <2>1, FlagEnds
  <1>3. CASE noise = <<>>
    BY <1>0, <1>1, <1>3, FeedsByte
  <1>4. CASE noise = Frame(<<128, 6, 0, 112>>)
    <2> DEFINE payload == <<128, 6, 0, 112>>
               done == [Ended(NewDecoder) EXCEPT !.yielded = Append(@, payload)]
    <2>1. payload \in Seq(Byte) /\ Len(payload) = 4 /\ payload[1] = 128 /\ payload # <<>>
      BY DEF Byte
    <2> HIDE DEF payload
    <2>2. /\ noise \in Seq(Byte) /\ Feeds(NewDecoder, noise, done)
          /\ Ended(NewDecoder) = opened
      <3>1. Ended(NewDecoder) = opened
        BY <1>0, OpenedDecoder DEF Ended
      <3> QED
        BY <1>0, <1>4, <2>1, <3>1, FrameIsDecoded DEF payload
    <2>3. done = [frame |-> <<>>, inFrame |-> TRUE, escaped |-> FALSE, yielded |-> Append(<<>>, payload)]
      <3> DEFINE ended == Ended(NewDecoder)
      <3>1. ended \in Decoders /\ ended = opened
        BY <1>0, <2>2, FlagEnds
      <3> HIDE DEF ended
      <3>2. /\ ended.frame = <<>> /\ ended.inFrame = TRUE /\ ended.escaped = FALSE
            /\ ended.yielded = <<>>
        BY <3>1
      <3>3. done = [ended EXCEPT !.yielded = Append(<<>>, payload)]
        BY <3>2 DEF ended
      <3> HIDE DEF done
      <3> QED
        BY <3>1, <3>2, <3>3, YieldingDecoder
    <2>4. Append(<<>>, payload) = <<payload>> /\ <<payload>> \in Seq(Seq(Byte))
      BY <2>1
    <2>5. done \in Decoders /\ Len(done.frame) < 3 /\ done.yielded = <<payload>>
      <3>1. Len(<<>>) = 0
        BY EmptySeq
      <3> HIDE DEF done
      <3> QED
        BY <1>0, <2>3, <2>4, <3>1 DEF Decoders
    <2> HIDE DEF done
    <2>6. Ahead(noise) = <<payload>>
      BY <2>2, <2>5, NothingEnds DEF Ahead
    <2>7. DOMAIN <<payload>> = {1} /\ <<payload>>[1] = payload /\ ~IsAnswer(payload)
      BY <2>1 DEF IsAnswer, Header
    <2> QED
      BY <2>2, <2>6, <2>7
  <1>5. CASE noise = <<Flag, Header, Escape>>
    <2> DEFINE one == [frame |-> <<Header>>, inFrame |-> TRUE, escaped |-> FALSE, yielded |-> <<>>]
               cut == [frame |-> <<Header>>, inFrame |-> TRUE, escaped |-> TRUE, yielded |-> <<>>]
    <2>1. /\ Header \in Byte /\ Escape \in Byte /\ Header # Flag /\ Header # Escape /\ Escape # Flag
          /\ <<Header>> \in Seq(Byte) /\ <<Escape>> \in Seq(Byte) /\ Len(<<Header>>) = 1
      BY DEF Header, Escape, Flag, Byte
    <2>2. Feed(opened, Header) = one
      <3>1. Feed(opened, Header) = Collected(opened, Header)
        BY <2>1 DEF Feed
      <3>2. ~(Len(<<>>) >= MaxFrameBytes + 2)
        BY <1>0, EmptySeq
      <3>3. Collected(opened, Header) = [opened EXCEPT !.frame = Append(@, Header), !.escaped = FALSE]
        BY <3>2 DEF Collected
      <3>4. Append(<<>>, Header) = <<Header>>
        BY <2>1
      <3> QED
        BY <3>1, <3>3, <3>4
    <2>3. Feed(one, Escape) = cut
      BY <2>1 DEF Feed
    <2>4. cut \in Decoders /\ Len(cut.frame) < 3 /\ cut.yielded = <<>>
      <3>1. <<>> \in Seq(Seq(Byte))
        BY EmptySeq
      <3> HIDE DEF Byte
      <3> QED
        BY <2>1, <3>1 DEF Decoders
    <2> HIDE DEF opened, one, cut
    <2>5. Feeds(opened, <<Header>>, one) /\ Feeds(one, <<Escape>>, cut)
      BY <2>1, <2>2, <2>3, FeedsByte
    <2>6. /\ <<Flag>> \o <<Header>> \in Seq(Byte)
          /\ Feeds(NewDecoder, <<Flag>> \o <<Header>>, one)
      BY <1>2, <2>1, <2>5, FeedsBoth, ConcatProperties
    <2>7. /\ (<<Flag>> \o <<Header>>) \o <<Escape>> \in Seq(Byte)
          /\ Feeds(NewDecoder, (<<Flag>> \o <<Header>>) \o <<Escape>>, cut)
      BY <2>1, <2>5, <2>6, FeedsBoth, ConcatProperties
    <2>8. (<<Flag>> \o <<Header>>) \o <<Escape>> = noise
      <3>1. <<Flag>> \o <<Header>> = <<Flag, Header>>
        BY <1>0, <2>1, TwoAreAppended
      <3>2. <<Flag, Header>> \o <<Escape>> = <<Flag, Header, Escape>>
        BY <1>0, <2>1, ThreeAreAppended
      <3> QED
        BY <1>5, <3>1, <3>2
    <2> QED
      BY <1>1, <2>4, <2>7, <2>8
  <1>6. CASE noise = <<Flag>> \o [i \in 1..(MaxFrameBytes + 3) |-> 85]
    <2> DEFINE long == [i \in 1..(MaxFrameBytes + 3) |-> 85]
    <2>1. /\ long \in Seq(Byte) /\ Len(long) = MaxFrameBytes + 3
          /\ \A i \in 1..Len(long) : long[i] = 85
      BY <1>0 DEF Byte
    <2> HIDE DEF long
    <2>2. \A i \in 1..Len(long) : long[i] \notin {Flag, Escape}
      BY <2>1 DEF Flag, Escape
    <2>3. PICK e \in Decoders : Feeds(opened, long, e) /\ ~e.inFrame /\ e.yielded = <<>>
      <3>1. opened.inFrame /\ ~opened.escaped /\ opened.frame = <<>> /\ opened.yielded = <<>>
        OBVIOUS
      <3> HIDE DEF opened
      <3> QED
        BY <1>2, <2>1, <2>2, <3>1, LongFrameIsDropped
    <2> HIDE DEF opened
    <2>4. <<Flag>> \o long \in Seq(Byte) /\ Feeds(NewDecoder, <<Flag>> \o long, e)
      BY <1>2, <2>1, <2>3, FeedsBoth, ConcatProperties
    <2>5. noise = <<Flag>> \o long
      BY <1>6 DEF long
    <2> QED
      BY <1>1, <2>3, <2>4, <2>5
  <1> QED
    BY <1>3, <1>4, <1>5, <1>6 DEF Noise

\* A dongle that answers without a fault on the line is read as what it reports.
LEMMA WholeReading ==
  ASSUME NEW t \in Texts, NEW r \in ReadsOf(t), r.whole
  PROVE  r.text = Reported(t)
  <1>1. r.text \in WholeReads[t]
    BY DEF ReadsOf
  <1>2. WholeReads[t] = {VersionIn(s) : s \in Answers[t]}
    BY Zenon DEF WholeReads
  <1>3. Answers[t] = {n \o Frame(<<Header, 6, 2>> \o t \o <<0>>) : n \in Noise}
    BY Zenon DEF Answers
  <1>4. PICK n \in Noise : r.text = VersionIn(n \o Frame(<<Header, 6, 2>> \o t \o <<0>>))
    BY <1>1, <1>2, <1>3, Zenon
  <1>5. t \in Seq(1..255) /\ Len(t) + 4 <= MaxFrameBytes /\ Len(t) \in Nat /\ MaxFrameBytes \in Nat
    <2>1. t \in Seq(1..255) /\ Len(t) + 4 <= MaxFrameBytes
      BY TextsAssumption, Zenon
    <2> QED
      BY <2>1, FrameAssumption, LenProperties
  <1>6. /\ n \in Seq(Byte)
        /\ \A i \in DOMAIN Decode(n \o <<Flag>>) : ~IsAnswer(Decode(n \o <<Flag>>)[i])
    <2>1. MaxFrameBytes >= 4
      BY <1>5
    <2> QED
      BY <2>1, NoiseIsNoAnswer DEF Ahead
  <1> DEFINE answer == Frame(<<Header, 6, 2>> \o t \o <<0>>)
  <1>7. VersionIn(n \o answer \o <<>>) = Reported(t)
    <2>1. <<>> \in Seq(Byte)
      BY EmptySeq
    <2>2. VersionIn(n \o answer \o <<>>) = IF IsVersion(t) THEN t ELSE Unread
      BY <1>5, <1>6, <2>1, AnswersAreRead
    <2> QED
      BY <2>2, Zenon DEF Reported
  <1>8. n \o answer \o <<>> = n \o answer
    <2> DEFINE payload == <<Header, 6, 2>> \o t \o <<0>>
    <2>1. payload \in Seq(Byte) /\ Len(payload) = Len(t) + 4
      BY <1>5, TextIsRead
    <2>2. payload # <<>> /\ Len(payload) <= MaxFrameBytes
      <3> HIDE DEF payload
      <3> QED
        BY <1>5, <2>1, EmptySeq
    <2>3. answer \in Seq(Byte)
      <3>1. NewDecoder \in Decoders
        <4>1. <<>> \in Seq(Byte) /\ <<>> \in Seq(Seq(Byte))
          BY EmptySeq
        <4> QED
          BY <4>1, Zenon DEF NewDecoder, Decoders
      <3> QED
        BY <2>1, <2>2, <3>1, FrameIsDecoded
    <2> HIDE DEF answer
    <2> QED
      BY <1>6, <2>3, ConcatProperties, ConcatEmptySeq
  <1> QED
    BY <1>4, <1>7, <1>8

\* Only get_ncp_version reads.
LEMMA ReadingIsSpinel ==
  ASSUME Next, Reads
  PROVE  Spinel
  <1>1. pc # pc' /\ pc' \in {"consider", "judge"}
    BY DEF Reads
  <1>2. ~Bus
    BY <1>1 DEF Bus, Unplug, Plug, Settle, Restart, Move, op
  <1>3. ~Begin /\ ~RebootApplication /\ ~ExpireProbe /\ ~EndVerification /\ ~Fail
    BY <1>1 DEF Begin, RebootApplication, ExpireProbe, EndVerification, ProbeReboot, Enumerate,
       ExpireVerification, Fail, Finish
  <1>4. ~Consider /\ ~Verify /\ ~Select /\ ~ResetBootloader /\ ~Recover /\ ~Transfer
    BY <1>1 DEF Consider, Verify, Select, ResetBootloader, Recover, Transfer, Finish, Goto
  <1>5. ~Probe
    BY <1>1 DEF Probe, Enumerate, GetImages, ProbeAgain, Goto
  <1> QED
    BY <1>2, <1>3, <1>4, <1>5 DEF Next, Proceed

\* spinel.py:184-203 and 225-238: of any number of dongles and versions, an answer
\* that arrives whole is read as what a dongle that answered reports, or refused if
\* that is no version, behind frames of other transactions, frames that were cut off
\* and bytes of none.
THEOREM WholeAnswersAreRead == Spec => WholeIsRead
  <1>1. TypeInv /\ [Next]_vars =>
          [Reads /\ read'.whole => \E d \in Answering : read'.text = Reported(image[d])]_vars
    <2> SUFFICES ASSUME TypeInv, Next, Reads, read'.whole
                 PROVE  \E d \in Answering : read'.text = Reported(image[d])
      OBVIOUS
    <2>1. Spinel
      BY ReadingIsSpinel
    <2>2. PICK d \in Answering : read' \in ReadsOf(image[d])
      BY <2>1 DEF Spinel, GetVersion, Reads
    <2>3. image[d] \in Texts
      BY DonglesAssumption DEF Answering, TypeInv, TypeOK, ImageOK
    <2> QED
      BY <2>2, <2>3, WholeReading
  <1> QED
    BY <1>1, TypeInit, TypeStep, PTL DEF Spec, WholeIsRead

=============================================================================
