--------------------------- MODULE ServiceCallProofs ---------------------------
(***************************************************************************)
(* The call gate for any number of threads and temporary LOBs.             *)
(***************************************************************************)
EXTENDS ServiceCall, TLAPS

USE DEF modeVars, lobVars, signals, readVars, Goto

-------------------------------------------------------------------------------
(***************************************************************************)
(* Types, and the locator in the hands of a thread.                        *)
(***************************************************************************)

LobPlaces == {"lobCheck", "lobRun", "lobBlock", "lobBack"}

\* a thread holds a locator exactly while it releases it
Holding == \A t \in Thread : lob[t] # None <=> pc[t] \in LobPlaces

TypeInv == TypeOK /\ Holding

\* The constants of the initial state have the right types.
LEMMA TypeInit == Init => TypeInv
BY NoneAssumption, ModesAssumption DEF Init, TypeInv, TypeOK, Holding, Places, LobPlaces

\* Leaving the gate, by a return or by an exception, keeps the types.
LEMMA TypeLeave ==
  ASSUME TypeInv, NEW t \in Thread, Leave(t),
         temp' \subseteq Lob, pending' \subseteq Thread, spoilt' \in BOOLEAN,
         executing' \in Thread \union {None}
  PROVE  TypeInv'
BY DEF TypeInv, TypeOK, Holding, Places, LobPlaces, Leave

\* Every action of the gate keeps the types and the relation of lob to pc.
LEMMA TypeStep == TypeInv /\ [Next]_vars => TypeInv'
<1> SUFFICES ASSUME TypeInv, [Next]_vars PROVE TypeInv'
  OBVIOUS
<1> USE NoneAssumption, OpsAssumption, ModesAssumption
    DEF TypeInv, TypeOK, Holding, Places, LobPlaces
<1>1. ASSUME NEW t \in Thread, NEW o \in Ops[t], Enter(t, o) PROVE TypeInv'
  BY <1>1 DEF Enter
<1>2. ASSUME NEW t \in Thread, NEW l \in Lob, FreeLob(t, l) PROVE TypeInv'
  BY <1>2 DEF FreeLob, TakeLob, Mark
<1>3. ASSUME NEW t \in Thread, NEW l \in Lob, FreeLobRefused(t, l) PROVE TypeInv'
  BY <1>3, TypeLeave DEF FreeLobRefused
<1>4. ASSUME NEW t \in Thread, CallMain(t) PROVE TypeInv'
  BY <1>4 DEF CallMain, LoopDone, Mark
<1>5. ASSUME NEW t \in Thread, CallMainRefused(t) PROVE TypeInv'
  BY <1>5, TypeLeave DEF CallMainRefused
<1>6. ASSUME NEW t \in Thread, Start(t) PROVE TypeInv'
  BY <1>6 DEF Start
<1>7. ASSUME NEW t \in Thread, NEW r \in {"ok", "error", "cancel"}, LobReturns(t, r)
      PROVE TypeInv'
  BY <1>7 DEF LobReturns
<1>8. ASSUME NEW t \in Thread, LobFreed(t) PROVE TypeInv'
  BY <1>8 DEF LobFreed
<1>9. ASSUME NEW t \in Thread, LobFreedBlocking(t) PROVE TypeInv'
  BY <1>9 DEF LobFreedBlocking
<1>10. ASSUME NEW t \in Thread, LobRaises(t) PROVE TypeInv'
  BY <1>10, TypeLeave DEF LobRaises
<1>11. ASSUME NEW t \in Thread, NEW r \in {"ok", "need", "cancel"}, MainReturns(t, r)
       PROVE TypeInv'
  BY <1>11 DEF MainReturns
<1>12. ASSUME NEW t \in Thread, MainRaises(t) PROVE TypeInv'
  <2>1. spoilt' \in BOOLEAN
    BY <1>12 DEF MainRaises
  <2> QED BY <1>12, <2>1, TypeLeave DEF MainRaises, ClearMark
<1>13. ASSUME NEW t \in Thread, MainDone(t) PROVE TypeInv'
  <2>1. TypeOK'
    <3>1. suppress' \in BOOLEAN
      BY <1>13 DEF MainDone, Resume, SuppressAfter
    <3>2. pc' \in [Thread -> Places] /\ gvl' \in Thread \union {None}
      BY <1>13 DEF MainDone, Resume
    <3>3. cancelled' \subseteq Thread /\ broke' \subseteq Thread
      BY <1>13 DEF MainDone, Resume
    <3> QED BY <1>13, <3>1, <3>2, <3>3 DEF MainDone, Resume
  <2>2. Holding'
    BY <1>13 DEF MainDone, Resume
  <2> QED BY <2>1, <2>2
<1>14. ASSUME NEW t \in Thread, NEW r \in {"ok", "need", "cancel"},
              MainDoneBlocking(t, r)
       PROVE TypeInv'
  <2>1. TypeOK'
    <3>1. suppress' \in BOOLEAN
      BY <1>14 DEF MainDoneBlocking, Resume, SuppressAfter
    <3>2. pc' \in [Thread -> Places] /\ gvl' \in Thread \union {None}
      BY <1>14 DEF MainDoneBlocking, Resume
    <3>3. cancelled' \subseteq Thread /\ broke' \subseteq Thread
      BY <1>14 DEF MainDoneBlocking, Resume
    <3> QED BY <1>14, <3>1, <3>2, <3>3 DEF MainDoneBlocking, Resume
  <2>2. Holding'
    BY <1>14 DEF MainDoneBlocking, Resume
  <2> QED BY <2>1, <2>2
<1>15. ASSUME NEW t \in Thread, Interrupt(t) PROVE TypeInv'
  BY <1>15 DEF Interrupt, Wake, Unblock
<1>16. ASSUME NEW t \in Thread, Break(t) PROVE TypeInv'
  BY <1>16 DEF Break, Wake, Unblock
<1>17. ASSUME NEW mode \in Modes, SetNonBlocking(mode) PROVE TypeInv'
  <2>1. spoilt' \in BOOLEAN
    BY <1>17 DEF SetNonBlocking
  <2> QED BY <1>17, <2>1 DEF SetNonBlocking
<1>18. ASSUME NEW l \in Lob, Collect(l) PROVE TypeInv'
  BY <1>18 DEF Collect
<1>19. CASE UNCHANGED vars
  BY <1>19 DEF vars
<1> QED
  BY <1>1, <1>2, <1>3, <1>4, <1>5, <1>6, <1>7, <1>8, <1>9, <1>10, <1>11, <1>12,
     <1>13, <1>14, <1>15, <1>16, <1>17, <1>18, <1>19 DEF Next, Proceed, Answer

\* Every variable of the gate keeps its type.
THEOREM TypeCorrect == Spec => []TypeOK
<1>1. TypeInv => TypeOK
  BY DEF TypeInv
<1> QED
  BY <1>1, TypeInit, TypeStep, PTL DEF Spec

-------------------------------------------------------------------------------
(***************************************************************************)
(* Temporary LOBs.                                                         *)
(***************************************************************************)

LobInv == TypeInv /\ LobOwnedOnce

\* Where the locators are changes only when a thread takes, frees or gives back
\* one, or the collector adds one.
LEMMA LobsUnmoved ==
  ASSUME LobInv, UNCHANGED <<collected, temp, freed, lob>>
  PROVE  LobOwnedOnce'
BY DEF LobInv, LobOwnedOnce

\* A locator that goes from the hands of a thread to the list or is freed.
LEMMA LobHandedOver ==
  ASSUME LobInv, NEW t \in Thread, lob[t] # None,
         lob' = [lob EXCEPT ![t] = None], UNCHANGED collected,
         \/ temp' = temp \union {lob[t]} /\ UNCHANGED freed
         \/ freed' = freed \union {lob[t]} /\ UNCHANGED temp
  PROVE  LobOwnedOnce'
<1> USE DEF LobInv, TypeInv, TypeOK, LobOwnedOnce
<1>1. /\ lob[t] \notin temp \union freed
      /\ \A u \in Thread \ {t} : lob'[u] = lob[u] /\ lob[u] # lob[t]
      /\ lob'[t] = None
  OBVIOUS
<1>2. {lob'[u] : u \in Thread} \ {None}
        = ({lob[u] : u \in Thread} \ {None}) \ {lob[t]}
  BY <1>1
<1>3. lob[t] \in {lob[u] : u \in Thread} \ {None}
  OBVIOUS
<1>4. temp' \union freed' = temp \union freed \union {lob[t]}
  OBVIOUS
<1>5. collected' = temp' \union freed' \union ({lob'[u] : u \in Thread} \ {None})
  BY <1>2, <1>3, <1>4
<1>6. temp' \cap freed' = {}
  BY <1>1
<1>7. \A u \in Thread : lob'[u] # None =>
        /\ lob'[u] \notin temp' \union freed'
        /\ \A w \in Thread : lob'[w] = lob'[u] => w = u
  BY <1>1, <1>4
<1> QED
  BY <1>5, <1>6, <1>7

\* A thread whose hands are empty takes a locator out of the list.
LEMMA LobTaken ==
  ASSUME LobInv, NEW t \in Thread, NEW l \in Lob, lob[t] = None, l \in temp,
         TakeLob(t, l), UNCHANGED <<collected, freed>>
  PROVE  LobOwnedOnce'
<1> USE NoneAssumption DEF LobInv, TypeInv, TypeOK, LobOwnedOnce, TakeLob
<1>1. /\ \A u \in Thread \ {t} : lob'[u] = lob[u] /\ lob[u] # l
      /\ lob'[t] = l /\ l # None /\ l \notin freed
  OBVIOUS
<1>2. {lob'[u] : u \in Thread} \ {None}
        = ({lob[u] : u \in Thread} \ {None}) \union {l}
  BY <1>1
<1>3. collected' = temp' \union freed' \union ({lob'[u] : u \in Thread} \ {None})
  BY <1>2
<1>4. \A u \in Thread : lob'[u] # None =>
        /\ lob'[u] \notin temp' \union freed'
        /\ \A w \in Thread : lob'[w] = lob'[u] => w = u
  BY <1>1
<1> QED
  BY <1>3, <1>4

\* Every action keeps each collected locator in one place.
LEMMA LobStep == LobInv /\ [Next]_vars => LobInv'
<1> SUFFICES ASSUME LobInv, [Next]_vars PROVE LobOwnedOnce'
  BY TypeStep DEF LobInv
<1>a. TypeInv /\ LobOwnedOnce
  BY DEF LobInv
<1>1. ASSUME NEW t \in Thread, NEW l \in Lob, FreeLob(t, l) PROVE LobOwnedOnce'
  <2>1. lob[t] = None /\ l \in temp /\ UNCHANGED <<collected, freed>>
    BY <1>1, <1>a DEF FreeLob, TypeInv, Holding, LobPlaces
  <2> QED BY <1>1, <2>1, LobTaken DEF FreeLob
<1>2. ASSUME NEW t \in Thread, LobFreed(t) \/ LobFreedBlocking(t) \/ LobRaises(t)
      PROVE  LobOwnedOnce'
  <2>1. lob[t] # None
    BY <1>2, <1>a DEF LobFreed, LobFreedBlocking, LobRaises, TypeInv, Holding, LobPlaces
  <2> QED BY <1>2, <2>1, LobHandedOver DEF LobFreed, LobFreedBlocking, LobRaises, Leave
<1>3. ASSUME NEW t \in Thread, Leave(t), pc[t] \notin LobPlaces, UNCHANGED temp
      PROVE  LobOwnedOnce'
  <2>1. lob[t] = None /\ lob \in [Thread -> Lob \union {None}]
    BY <1>3, <1>a DEF TypeInv, TypeOK, Holding
  <2>2. lob' = lob
    BY <1>3, <2>1 DEF Leave
  <2> QED BY <1>3, <2>2, LobsUnmoved DEF Leave
<1>4. ASSUME NEW t \in Thread, NEW l \in Lob, FreeLobRefused(t, l)
      PROVE  LobOwnedOnce'
  BY <1>3, <1>4 DEF FreeLobRefused, LobPlaces
<1>5. ASSUME NEW t \in Thread, CallMainRefused(t) \/ MainRaises(t)
      PROVE  LobOwnedOnce'
  BY <1>3, <1>5 DEF CallMainRefused, LoopDone, MainRaises, LobPlaces
<1>6. ASSUME NEW l \in Lob, Collect(l) PROVE LobOwnedOnce'
  BY <1>6, <1>a DEF Collect, LobOwnedOnce
<1>7. ASSUME NEW t \in Thread, NEW o \in Ops[t], Enter(t, o) PROVE LobOwnedOnce'
  BY <1>7, LobsUnmoved DEF Enter
<1>8. ASSUME NEW t \in Thread, CallMain(t) \/ Start(t) PROVE LobOwnedOnce'
  BY <1>8, LobsUnmoved DEF CallMain, Start
<1>9. ASSUME NEW t \in Thread, NEW r,
             LobReturns(t, r) \/ MainReturns(t, r) \/ MainDoneBlocking(t, r)
      PROVE  LobOwnedOnce'
  BY <1>9, LobsUnmoved DEF LobReturns, MainReturns, MainDoneBlocking, Resume
<1>10. ASSUME NEW t \in Thread, MainDone(t) \/ Interrupt(t) \/ Break(t)
       PROVE  LobOwnedOnce'
  BY <1>10, LobsUnmoved DEF MainDone, Resume, Interrupt, Break
<1>11. ASSUME NEW mode \in Modes, SetNonBlocking(mode) PROVE LobOwnedOnce'
  BY <1>11, LobsUnmoved DEF SetNonBlocking
<1>12. CASE UNCHANGED vars
  BY <1>12, LobsUnmoved DEF vars
<1> QED
  BY <1>1, <1>2, <1>4, <1>5, <1>6, <1>7, <1>8, <1>9, <1>10, <1>11, <1>12
     DEF Next, Proceed, Answer

\* The locator of a collected LOB is in the list, in the hands of one thread or
\* freed, for any number of threads and LOBs.
THEOREM LobsOwnedOnce == Spec => []LobOwnedOnce
<1>1. Init => LobInv
  BY TypeInit DEF Init, LobInv, LobOwnedOnce
<1>2. LobInv => LobOwnedOnce
  BY DEF LobInv
<1> QED
  BY <1>1, <1>2, LobStep, PTL DEF Spec

-------------------------------------------------------------------------------
(***************************************************************************)
(* The descriptor of a LOB goes after the answer to the LOB's release.     *)
(***************************************************************************)

\* a release that was not cancelled has been answered
AnswerTrue ==
  \A t \in Thread : pc[t] = "lobBack" /\ rv[t] # "cancel" => lob[t] \in answered

ReleaseInv == TypeInv /\ AnsweredFirst /\ AnswerTrue

\* Only the answer of OCI and the two ways to free a descriptor matter.
LEMMA ReleaseStep == ReleaseInv /\ [Next]_vars => ReleaseInv'
<1> SUFFICES ASSUME ReleaseInv, [Next]_vars PROVE AnsweredFirst' /\ AnswerTrue'
  BY TypeStep DEF ReleaseInv
<1> DEFINE Kept == AnsweredFirst' /\ AnswerTrue'
<1> USE DEF ReleaseInv, TypeInv, TypeOK, AnsweredFirst, AnswerTrue
<1>1. ASSUME NEW t \in Thread, NEW r \in {"ok", "error", "cancel"}, LobReturns(t, r)
      PROVE  Kept
  BY <1>1 DEF LobReturns
<1>2. ASSUME NEW t \in Thread, LobFreed(t) PROVE Kept
  BY <1>2 DEF LobFreed, LobFails
<1>3. ASSUME NEW t \in Thread, LobFreedBlocking(t) PROVE Kept
  BY <1>3 DEF LobFreedBlocking
<1>4. ASSUME NEW t \in Thread, NEW l \in Lob, FreeLob(t, l) PROVE Kept
  BY <1>4 DEF FreeLob, TakeLob
<1>5. ASSUME NEW t \in Thread,
             (\E l \in Lob : FreeLobRefused(t, l)) \/ CallMainRefused(t) \/ LobRaises(t)
               \/ MainRaises(t)
      PROVE  Kept
  BY <1>5 DEF FreeLobRefused, CallMainRefused, LobRaises, MainRaises, Leave
<1>6. ASSUME NEW t \in Thread, CallMain(t) \/ Start(t) PROVE Kept
  BY <1>6 DEF CallMain, Start
<1>7. ASSUME NEW t \in Thread, NEW r \in {"ok", "need", "cancel"}, MainReturns(t, r) PROVE Kept
  BY <1>7 DEF MainReturns
<1>8. ASSUME NEW t \in Thread, NEW r \in {"ok", "need", "cancel"},
             MainDone(t) \/ MainDoneBlocking(t, r)
      PROVE  Kept
  BY <1>8 DEF MainDone, MainDoneBlocking, Resume
<1>9. ASSUME NEW t \in Thread, NEW o \in Ops[t], Enter(t, o) PROVE Kept
  BY <1>9 DEF Enter
<1>10. ASSUME NEW t \in Thread, Interrupt(t) \/ Break(t) PROVE Kept
  BY <1>10 DEF Interrupt, Break
<1>11. ASSUME NEW mode \in Modes, SetNonBlocking(mode) PROVE Kept
  BY <1>11 DEF SetNonBlocking
<1>12. ASSUME NEW l \in Lob, Collect(l) PROVE Kept
  BY <1>12 DEF Collect
<1>13. CASE UNCHANGED vars
  BY <1>13 DEF vars
<1> QED
  BY <1>1, <1>2, <1>3, <1>4, <1>5, <1>6, <1>7, <1>8, <1>9, <1>10, <1>11, <1>12, <1>13
     DEF Next, Proceed, Answer

\* The descriptor of a temporary LOB is freed only when OCI has answered the release
\* of the LOB, never after one that was cancelled or did not begin, for any number
\* of threads and LOBs.
THEOREM AnsweredBeforeFreed == Spec => []AnsweredFirst
<1>1. Init => ReleaseInv
  BY TypeInit DEF Init, ReleaseInv, AnsweredFirst, AnswerTrue
<1>2. ReleaseInv => AnsweredFirst
  BY DEF ReleaseInv
<1> QED
  BY <1>1, <1>2, ReleaseStep, PTL DEF Spec

-------------------------------------------------------------------------------
(***************************************************************************)
(* The gate until the first temporary LOB is collected: the mark and the   *)
(* lock say where every thread is.  Later this is false, as the runs show. *)
(***************************************************************************)

\* mark, lock and places determine each other
InStep ==
  /\ \A t \in Thread :
       /\ pc[t] \notin LobPlaces
       /\ executing = t <=> pc[t] \in {"mainCheck", "mainRun", "mainBack"}
       /\ gvl = t <=> pc[t] \in {"loop", "mainBlock"}
  /\ gvl # None => executing = None

GateInv == LobInv /\ (NoLobYet => InStep)

\* The mark and the lock exclude two threads in OCI.
LEMMA GateExcludes == TypeInv /\ InStep => OneCallAtATime /\ MarkIsTrue
BY NoneAssumption DEF InStep, OneCallAtATime, MarkIsTrue, InOCI, LobPlaces, TypeInv, TypeOK

\* What was collected stays so.
LEMMA CollectedGrows ==
  ASSUME [Next]_vars PROVE NoLobYet' => NoLobYet /\ UNCHANGED collected
<1> SUFFICES ASSUME collected' = {} PROVE collected' = collected
  BY DEF NoLobYet
<1>1. ASSUME NEW l \in Lob, Collect(l) PROVE FALSE
  BY <1>1 DEF Collect
<1>2. ASSUME NEW t \in Thread, Proceed(t) PROVE UNCHANGED collected
  BY <1>2 DEF Proceed, FreeLob, FreeLobRefused, CallMain, CallMainRefused, Start, LobFreed,
     LobFreedBlocking, LobRaises, MainRaises, MainDone, Resume, Leave, lobVars
<1>3. ASSUME NEW t \in Thread, Answer(t) PROVE UNCHANGED collected
  BY <1>3 DEF Answer, LobReturns, MainReturns, MainDoneBlocking, Resume, lobVars
<1>4. ASSUME NEW t \in Thread, NEW o \in Ops[t], Enter(t, o) PROVE UNCHANGED collected
  BY <1>4 DEF Enter, lobVars
<1>5. ASSUME NEW t \in Thread, Interrupt(t) \/ Break(t) PROVE UNCHANGED collected
  BY <1>5 DEF Interrupt, Break, lobVars
<1>6. ASSUME NEW mode \in Modes, SetNonBlocking(mode) PROVE UNCHANGED collected
  BY <1>6 DEF SetNonBlocking, lobVars
<1>7. CASE UNCHANGED vars
  BY <1>7 DEF vars
<1> QED
  BY <1>1, <1>2, <1>3, <1>4, <1>5, <1>6, <1>7 DEF Next

\* Every action but those of the loop over temp_lobs keeps mark, lock and places
\* together.
LEMMA GateStep == GateInv /\ [Next]_vars => GateInv'
<1> SUFFICES ASSUME GateInv, [Next]_vars, NoLobYet' PROVE InStep'
  BY LobStep DEF GateInv
<1>t. TypeInv' /\ NoLobYet /\ InStep /\ UNCHANGED collected
  BY LobStep, CollectedGrows DEF GateInv, LobInv
<1>e. temp = {}
  BY <1>t DEF GateInv, LobInv, LobOwnedOnce, NoLobYet
<1> USE <1>t, NoneAssumption DEF InStep, GateInv, LobInv, TypeInv, TypeOK, LobPlaces
<1>1. ASSUME NEW t \in Thread, NEW o \in Ops[t], Enter(t, o) PROVE InStep'
  BY <1>1 DEF Enter, GateOpen
<1>2. ASSUME NEW t \in Thread, CallMain(t) PROVE InStep'
  BY <1>2 DEF CallMain, LoopDone, GateOpen, Mark
<1>3. ASSUME NEW t \in Thread, CallMainRefused(t) PROVE InStep'
  BY <1>3 DEF CallMainRefused, LoopDone, GateOpen
<1>4. ASSUME NEW t \in Thread, Start(t) PROVE InStep'
  BY <1>4 DEF Start
<1>5. ASSUME NEW t \in Thread, NEW r \in {"ok", "need", "cancel"}, MainReturns(t, r)
      PROVE InStep'
  BY <1>5 DEF MainReturns
<1>6. ASSUME NEW t \in Thread, MainRaises(t) PROVE InStep'
  BY <1>6 DEF MainRaises, ClearMark, Leave
<1>7. ASSUME NEW t \in Thread, MainDone(t) PROVE InStep'
  BY <1>7 DEF MainDone, Resume
<1>8. ASSUME NEW t \in Thread, NEW r \in {"ok", "need", "cancel"},
             MainDoneBlocking(t, r)
      PROVE InStep'
  BY <1>8 DEF MainDoneBlocking, Resume
<1>9. ASSUME NEW t \in Thread, Interrupt(t) \/ Break(t) PROVE InStep'
  BY <1>9 DEF Interrupt, Break
<1>10. ASSUME NEW mode \in Modes, SetNonBlocking(mode) PROVE InStep'
  BY <1>10 DEF SetNonBlocking
<1>11. ASSUME NEW t \in Thread
       PROVE  /\ \A l : ~FreeLob(t, l) /\ ~FreeLobRefused(t, l)
              /\ \A r : ~LobReturns(t, r)
              /\ ~LobFreed(t) /\ ~LobFreedBlocking(t) /\ ~LobRaises(t)
  BY <1>e DEF FreeLob, FreeLobRefused, LobReturns, LobFreed, LobFreedBlocking, LobRaises
<1>12. CASE UNCHANGED vars
  BY <1>12 DEF vars
<1>13. \A l \in Lob : ~Collect(l)
  BY DEF Collect, NoLobYet
<1> QED
  BY <1>1, <1>2, <1>3, <1>4, <1>5, <1>6, <1>7, <1>8, <1>9, <1>10, <1>11, <1>12, <1>13
     DEF Next, Proceed, Answer

\* Initially nobody is in a call.
LEMMA GateInit == Init => GateInv
BY TypeInit, NoneAssumption DEF Init, GateInv, InStep, LobInv, LobOwnedOnce, LobPlaces

\* Until the first temporary LOB is collected one thread at a time is inside OCI,
\* and executing_thread is set exactly while its thread is in a call, for any
\* number of threads, with exceptions, breaks and changes of mode.
THEOREM GateAlwaysExact == Spec => []GateExact
<1>1. GateInv => GateExact
  BY GateExcludes DEF GateInv, LobInv, GateExact
<1> QED
  BY <1>1, GateInit, GateStep, PTL DEF Spec

-------------------------------------------------------------------------------
(***************************************************************************)
(* Breaks.                                                                 *)
(***************************************************************************)

StopInv == GateInv /\ StopsOnlyWhoWasAsked

OnlyAsked == cancelled \subseteq pending \union broke

\* A break or an exception cancels only the thread it is meant for, which is the
\* only one in OCI.
LEMMA StopStep == StopInv /\ [Next]_vars => StopInv'
<1> SUFFICES ASSUME StopInv, [Next]_vars, NoLobYet' PROVE OnlyAsked'
  BY GateStep DEF StopInv, StopsOnlyWhoWasAsked, OnlyAsked
<1>c. NoLobYet /\ OnlyAsked
  BY CollectedGrows DEF StopInv, StopsOnlyWhoWasAsked, OnlyAsked
<1>a. OneCallAtATime
  BY <1>c, GateExcludes DEF StopInv, GateInv, LobInv
<1>e. temp = {} /\ \A t \in Thread : pc[t] \notin LobPlaces
  BY <1>c DEF StopInv, GateInv, InStep, LobInv, LobOwnedOnce, NoLobYet
<1> USE <1>c DEF OnlyAsked
<1>1. ASSUME NEW t \in Thread, Interrupt(t) PROVE OnlyAsked'
  <2>1. CASE pc[t] = "idle"
    BY <1>1, <2>1 DEF Interrupt, Wake, UbfSet
  <2>2. CASE pc[t] # "idle"
    <3>1. cancelled' \subseteq cancelled \union {t}
      BY <1>1, <1>a DEF Interrupt, Wake, UbfSet, Unblock, InOCI, OneCallAtATime
    <3> QED BY <1>1, <2>2, <3>1 DEF Interrupt
  <2> QED BY <2>1, <2>2
<1>2. ASSUME NEW t \in Thread, Break(t) PROVE OnlyAsked'
  <2>1. CASE pc[t] = "idle"
    BY <1>2, <2>1 DEF Break, Wake, UbfSet
  <2>2. CASE pc[t] # "idle"
    <3>1. cancelled' \subseteq cancelled \union {t}
      BY <1>2, <1>a DEF Break, Wake, UbfSet, Unblock, InOCI, OneCallAtATime
    <3> QED BY <1>2, <2>2, <3>1 DEF Break
  <2> QED BY <2>1, <2>2
<1>3. ASSUME NEW t \in Thread, CallMainRefused(t) \/ MainRaises(t) \/ LobRaises(t)
      PROVE  OnlyAsked'
  BY <1>3 DEF CallMainRefused, MainRaises, LobRaises, Leave
<1>4. ASSUME NEW t \in Thread, MainDone(t) PROVE OnlyAsked'
  BY <1>4 DEF MainDone, Resume
<1>5. ASSUME NEW t \in Thread, NEW r \in {"ok", "need", "cancel"},
             MainDoneBlocking(t, r)
      PROVE  OnlyAsked'
  BY <1>5 DEF MainDoneBlocking, Resume
<1>6. ASSUME UNCHANGED signals PROVE OnlyAsked'
  BY <1>6
<1>7. ASSUME NEW t \in Thread
      PROVE  /\ \A o : Enter(t, o) => UNCHANGED signals
             /\ CallMain(t) \/ Start(t) => UNCHANGED signals
             /\ LobFreed(t) \/ LobFreedBlocking(t) => UNCHANGED signals
             /\ \A r : LobReturns(t, r) \/ MainReturns(t, r) => UNCHANGED signals
  BY DEF Enter, CallMain, Start, LobFreed, LobFreedBlocking, LobReturns, MainReturns
<1>8. \A mode : SetNonBlocking(mode) => UNCHANGED signals
  BY DEF SetNonBlocking
<1>9. CASE UNCHANGED vars
  BY <1>6, <1>9 DEF vars
<1>10. ASSUME NEW t \in Thread, NEW l \in Lob PROVE ~FreeLob(t, l) /\ ~FreeLobRefused(t, l)
  BY <1>e DEF FreeLob, FreeLobRefused
<1>11. \A l \in Lob : ~Collect(l)
  BY DEF Collect, NoLobYet
<1> QED
  BY <1>1, <1>2, <1>3, <1>4, <1>5, <1>6, <1>7, <1>8, <1>9, <1>10, <1>11
     DEF Next, Proceed, Answer

\* Until the first temporary LOB is collected only a thread that was interrupted,
\* or that OCI8#break was meant for, has its call cancelled.
THEOREM StopsOnlyAsked == Spec => []StopsOnlyWhoWasAsked
<1>1. Init => StopInv
  BY GateInit DEF Init, StopInv, StopsOnlyWhoWasAsked
<1>2. StopInv /\ [Next]_vars => StopInv'
  BY StopStep
<1>3. StopInv => StopsOnlyWhoWasAsked
  BY DEF StopInv
<1> QED
  BY <1>1, <1>2, <1>3, PTL DEF Spec

-------------------------------------------------------------------------------
(***************************************************************************)
(* Reads in pieces.  As long as nothing is spoilt the mark is where it     *)
(* should be, but for one that an exception before OCILobFreeTemporary has *)
(* left behind, which only closes the gate.                                *)
(***************************************************************************)

Marked == {"lobCheck", "lobRun", "mainCheck", "mainRun", "mainBack"}

\* who has the lock, and in which mode a call is made
LockHeld ==
  \A t \in Thread :
    /\ pc[t] \in {"loop", "lobBlock", "mainBlock"} => gvl = t
    /\ pc[t] \in {"lobBlock", "mainBlock"} => ~nonBlocking

MarkKept ==
  /\ \A t \in Thread : pc[t] \in Marked => executing = t
  /\ executing # None => nonBlocking

\* r is between two pieces of a read: in the call that has just returned one, on
\* its way to the next with the mark or with the lock.
Reads(r) ==
  /\ op[r] = "read"
  /\ \/ pc[r] = "mainBack" /\ rv[r] = "need"
     \/ pc[r] \in {"mainCheck", "mainRun"} /\ suppress
     \/ pc[r] \in {"loop", "mainBlock"} /\ suppress /\ executing = None

ReadInv ==
  /\ TypeInv /\ LockHeld
  /\ ~spoilt => MarkKept /\ (reading => \E r \in Thread : Reads(r))

\* The lock is where it was, or is taken or given up together with the place.
LEMMA LockStep == TypeInv /\ LockHeld /\ [Next]_vars => LockHeld'
<1> SUFFICES ASSUME TypeInv, LockHeld, [Next]_vars PROVE LockHeld'
  OBVIOUS
<1> USE NoneAssumption DEF TypeInv, TypeOK, LockHeld
<1>1. ASSUME NEW t \in Thread, NEW o \in Ops[t], Enter(t, o) PROVE LockHeld'
  BY <1>1 DEF Enter
<1>2. ASSUME NEW t \in Thread, NEW l \in Lob, FreeLob(t, l) \/ FreeLobRefused(t, l)
      PROVE LockHeld'
  BY <1>2 DEF FreeLob, FreeLobRefused, Leave
<1>3. ASSUME NEW t \in Thread, CallMain(t) \/ CallMainRefused(t) PROVE LockHeld'
  BY <1>3 DEF CallMain, CallMainRefused, LoopDone, Leave
<1>4. ASSUME NEW t \in Thread, Start(t) PROVE LockHeld'
  BY <1>4 DEF Start
<1>5. ASSUME NEW t \in Thread, LobFreed(t) \/ LobFreedBlocking(t) \/ LobRaises(t)
      PROVE LockHeld'
  BY <1>5 DEF LobFreed, LobFreedBlocking, LobRaises, Leave
<1>6. ASSUME NEW t \in Thread, MainRaises(t) PROVE LockHeld'
  BY <1>6 DEF MainRaises, Leave
<1>7. ASSUME NEW t \in Thread, MainDone(t) PROVE LockHeld'
  BY <1>7 DEF MainDone, Resume
<1>8. ASSUME NEW t \in Thread, NEW r, LobReturns(t, r) \/ MainReturns(t, r) PROVE LockHeld'
  BY <1>8 DEF LobReturns, MainReturns
<1>9. ASSUME NEW t \in Thread, NEW r, MainDoneBlocking(t, r) PROVE LockHeld'
  BY <1>9 DEF MainDoneBlocking, Resume
<1>10. ASSUME NEW t \in Thread, Interrupt(t) \/ Break(t) PROVE LockHeld'
  BY <1>10 DEF Interrupt, Break
<1>11. ASSUME NEW mode \in Modes, SetNonBlocking(mode) PROVE LockHeld'
  BY <1>11 DEF SetNonBlocking
<1>12. ASSUME NEW l \in Lob, Collect(l) PROVE LockHeld'
  BY <1>12 DEF Collect
<1>13. CASE UNCHANGED vars
  BY <1>13 DEF vars
<1> QED
  BY <1>1, <1>2, <1>3, <1>4, <1>5, <1>6, <1>7, <1>8, <1>9, <1>10, <1>11, <1>12, <1>13
     DEF Next, Proceed, Answer

\* What is spoilt stays so.
LEMMA SpoiltStays == TypeInv /\ [Next]_vars /\ ~spoilt' => ~spoilt
BY DEF Next, Proceed, Answer, Enter, FreeLob, FreeLobRefused, CallMain, CallMainRefused, Start,
   LobReturns, LobFreed, LobFreedBlocking, LobRaises, MainReturns, MainRaises, MainDone,
   MainDoneBlocking, Interrupt, Break, SetNonBlocking, Collect, vars, TypeInv, TypeOK

\* Every action keeps the mark and the place of the read, or spoils them.
LEMMA ReadStep == ReadInv /\ [Next]_vars => ReadInv'
<1> SUFFICES ASSUME ReadInv, [Next]_vars, ~spoilt'
             PROVE  MarkKept' /\ (reading' => \E r \in Thread : Reads(r)')
  BY TypeStep, LockStep DEF ReadInv
<1> DEFINE Goal == MarkKept' /\ (reading' => \E r \in Thread : Reads(r)')
<1>t. TypeInv /\ LockHeld /\ MarkKept /\ (reading => \E r \in Thread : Reads(r)) /\ ~spoilt
  BY SpoiltStays DEF ReadInv
<1> USE <1>t, NoneAssumption DEF TypeInv, TypeOK, LockHeld, MarkKept, Marked, Reads
<1>1. ASSUME NEW t \in Thread, NEW o \in Ops[t], Enter(t, o) PROVE Goal
  BY <1>1 DEF Enter, GateOpen
<1>2. ASSUME NEW t \in Thread, NEW l \in Lob, FreeLob(t, l) PROVE Goal
  BY <1>2 DEF FreeLob, GateOpen, Mark
<1>3. ASSUME NEW t \in Thread, NEW l \in Lob, FreeLobRefused(t, l) PROVE Goal
  BY <1>3 DEF FreeLobRefused, Leave, GateOpen
<1>4. ASSUME NEW t \in Thread, CallMain(t) PROVE Goal
  BY <1>4 DEF CallMain, LoopDone, GateOpen, Mark
<1>5. ASSUME NEW t \in Thread, CallMainRefused(t) PROVE Goal
  BY <1>5 DEF CallMainRefused
<1>6. ASSUME NEW t \in Thread, Start(t) PROVE Goal
  BY <1>6 DEF Start
<1>7. ASSUME NEW t \in Thread, NEW r, LobReturns(t, r) PROVE Goal
  BY <1>7 DEF LobReturns
<1>8. ASSUME NEW t \in Thread, LobFreed(t) \/ LobFreedBlocking(t) PROVE Goal
  BY <1>8 DEF LobFreed, LobFreedBlocking
<1>9. ASSUME NEW t \in Thread, LobRaises(t) PROVE Goal
  BY <1>9 DEF LobRaises, Leave
<1>10. ASSUME NEW t \in Thread, NEW r \in {"ok", "need", "cancel"}, MainReturns(t, r) PROVE Goal
  BY <1>10 DEF MainReturns
<1>11. ASSUME NEW t \in Thread, MainRaises(t) PROVE Goal
  BY <1>11 DEF MainRaises, ClearMark, Leave
<1>12. ASSUME NEW t \in Thread, MainDone(t) PROVE Goal
  BY <1>12 DEF MainDone, Resume, SuppressAfter
<1>13. ASSUME NEW t \in Thread, NEW r \in {"ok", "need", "cancel"}, MainDoneBlocking(t, r)
       PROVE Goal
  BY <1>13 DEF MainDoneBlocking, Resume, SuppressAfter
<1>14. ASSUME NEW t \in Thread, Interrupt(t) \/ Break(t) PROVE Goal
  BY <1>14 DEF Interrupt, Break
<1>15. ASSUME NEW mode \in Modes, SetNonBlocking(mode) PROVE Goal
  BY <1>15 DEF SetNonBlocking
<1>16. ASSUME NEW l \in Lob, Collect(l) PROVE Goal
  BY <1>16 DEF Collect
<1>17. CASE UNCHANGED vars
  BY <1>17 DEF vars
<1> QED
  BY <1>1, <1>2, <1>3, <1>4, <1>5, <1>6, <1>7, <1>8, <1>9, <1>10, <1>11, <1>12, <1>13, <1>14,
     <1>15, <1>16, <1>17 DEF Next, Proceed, Answer

\* For any number of threads and LOBs: until something is spoilt no temporary LOB
\* is released while OCI expects the next piece of a read.
THEOREM ReadsNotDisturbed == Spec => []ReadNotDisturbed
<1>1. Init => ReadInv
  BY TypeInit, NoneAssumption DEF Init, ReadInv, LockHeld, MarkKept, Marked
<1>2. ReadInv => ReadNotDisturbed
  BY NoneAssumption DEF ReadInv, ReadNotDisturbed, TypeInv, TypeOK, LockHeld, MarkKept, Marked, Reads
<1> QED
  BY <1>1, <1>2, ReadStep, PTL DEF Spec
===============================================================================
