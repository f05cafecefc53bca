-------------------------- MODULE Requests_proofs --------------------------
(***************************************************************************)
(* Proofs about what requests share, for every set of threads and children. *)
(*                                                                         *)
(* ApiServer, with the cooperative overlap on and off: what a park carries  *)
(* holds nobody's data but that of the request whose handler runs (the rest *)
(* with the overlap off only), and every way out of a handler gives back    *)
(* what the request took.  Both rest on the invoke lock: whoever is inside  *)
(* is the head of the queue, and only it is in the handler's code.          *)
(*                                                                         *)
(* AsyncTasks, for scripts that send a child one request at a time: a call  *)
(* gets the answer to its own request, however often slots are used again.  *)
(***************************************************************************)
EXTENDS ApiServer, AsyncTasks, FiniteSetTheorems, SequenceTheorems, TLAPS

-----------------------------------------------------------------------------
(* ApiServer.                                                               *)

Stages == {"idle", "arrived", "line", "handler", "parked", "rejoin", "reply",
           "late"}

TypeOK ==
    /\ overlap \in BOOLEAN
    /\ queue \in Seq(Threads) /\ owner \in Threads \union {NoThread}
    /\ stage \in [Threads -> Stages]
    /\ vm \in Live /\ stash \in [Threads -> Live]
    /\ active \in Int /\ inflight \in Int
    /\ owned \in SUBSET Threads
    /\ objects \in [Threads -> {"none", "live", "freed"}]
    /\ reply \in [Threads -> SUBSET Threads]
    /\ printed \in [Threads -> SUBSET Threads]

(* The thread inside is the head of the line, and handler code is inside. *)
LockInv ==
    /\ owner # NoThread => queue # <<>> /\ Head(queue) = owner
    /\ \A t \in Threads : stage[t] = "handler" => owner = t

(* Where the request's data is: in the VM while its code runs, in its stash  *)
(* while it is parked; the recovery point is that of a request in a handler. *)
DataInv ==
    /\ CarriedIsOwn
    /\ (\A t \in Threads : stage[t] # "handler") => vm["vars"] = {} /\ vm["ret"] = {}
    /\ \A t \in Threads : stage[t] \in {"parked", "rejoin"} =>
           stash[t]["recovery"] = {t} /\ stash[t]["http"] = {t}
    /\ vm["recovery"] \subseteq InHandler

Counted == {t \in Threads : stage[t] \notin {"idle", "late"}}

(* Both counters count, and the registry of what requests own is empty when  *)
(* no request is in a handler; a live object is registered.                  *)
CountInv ==
    /\ active = Cardinality(InHandler)
    /\ inflight = Cardinality(Counted)
    /\ InHandler = {} => owned = {}
    /\ \A t \in Threads : objects[t] = "live" => t \in owned /\ t \in InHandler

(* What te_reqstate_save leaves in the VM and in the registry is that of the *)
(* requests in a handler, of which there is one when none parks.             *)
UnsavedInv ==
    /\ owned \subseteq InHandler /\ vm["output"] \subseteq InHandler
    /\ \A t \in Threads : objects[t] # "none" => t \in InHandler
    /\ ~overlap => /\ \A t \in Threads : /\ stage[t] \notin {"parked", "rejoin"}
                                          /\ objects[t] # "freed"
                   /\ UnsavedIsOwn

IInv == TypeOK /\ LockInv /\ DataInv /\ CountInv /\ UnsavedInv

-----------------------------------------------------------------------------
(* Every set of threads is finite. *)
LEMMA ThreadsFinite ==
    ASSUME ApiServerAssumption PROVE \A S \in SUBSET Threads : IsFiniteSet(S)
  BY FS_Subset DEF ApiServerAssumption

(* What the steps of the lock do to the line, and that only a step of its    *)
(* owner takes the lock away.                                                *)
LEMMA LockSteps ==
    ASSUME ApiServerAssumption, TypeOK, LockInv, NEW t \in Threads,
           Lock!Request(t) \/ Lock!Barge(t) \/ Lock!Enter(t) \/ Lock!Release(t)
    PROVE  /\ queue' \in Seq(Threads) /\ owner' \in Threads \union {NoThread}
           /\ owner' # NoThread => queue' # <<>> /\ Head(queue') = owner'
           /\ owner # NoThread /\ owner # t => owner' = owner
  <1>1. CASE Lock!Request(t)
    BY <1>1, AppendProperties, HeadTailAppend DEF Lock!Request, TypeOK, LockInv
  <1>2. CASE Lock!Barge(t)
    BY <1>2 DEF Lock!Barge, TypeOK, LockInv, ApiServerAssumption
  <1>3. CASE Lock!Enter(t)
    BY <1>3 DEF Lock!Enter, TypeOK, LockInv
  <1>4. CASE Lock!Release(t)
    BY <1>4, HeadTailProperties
       DEF Lock!Release, TypeOK, LockInv, ApiServerAssumption
  <1> QED
    BY <1>1, <1>2, <1>3, <1>4

(* Every step of a thread leaves the lock alone or is one of its steps. *)
LEMMA StepsOfTheLock ==
    ASSUME NEW t \in Threads, Arrive(t) \/ Step(t)
    PROVE  /\ UNCHANGED overlap
           /\ \/ UNCHANGED <<queue, owner>>
              \/ Lock!Request(t) \/ Lock!Barge(t) \/ Lock!Enter(t)
              \/ Lock!Release(t)
  BY DEF Arrive, Step, Acquire, Enter, NoRoute, TooLarge, Invoke, Handler, Run,
         Park, Unpark, Return, Fatal, Write, Released, lock

(* Only the thread that takes the step moves, and handler code is entered by *)
(* the thread inside only.                                                   *)
LEMMA StagesMove ==
    ASSUME TypeOK, NEW t \in Threads, Arrive(t) \/ Step(t)
    PROVE  /\ stage' \in [Threads -> Stages]
           /\ \A u \in Threads \ {t} : stage'[u] = stage[u]
           /\ stage'[t] = "handler" =>
                 /\ owner = t \/ stage[t] = "handler"
                 /\ UNCHANGED owner \/ Lock!Enter(t)
  BY DEF Arrive, Step, Acquire, Enter, NoRoute, TooLarge, Invoke, Handler, Run,
         Park, Unpark, Return, Fatal, Write, Goto, TypeOK, Stages, Holds, lock

LEMMA InitInv == ASSUME ApiServerAssumption, ApiInit PROVE IInv
  <1>1. TypeOK
    BY EmptySeq
       DEF ApiInit, Lock!Init, TypeOK, Stages, Blank, Live, ApiServerAssumption
  <1>2. LockInv /\ DataInv
    BY DEF ApiInit, Lock!Init, LockInv, DataInv, CarriedIsOwn, Holds,
           Blank, Slices
  <1>3. CountInv
    <2>1. InHandler = {} /\ Counted = {}
      BY DEF ApiInit, InHandler, Counted
    <2> QED
      BY <2>1, FS_EmptySet DEF ApiInit, CountInv
  <1>4. UnsavedInv
    BY DEF ApiInit, UnsavedInv, UnsavedIsOwn, Blank, Slices, Holds
  <1> QED
    BY <1>1, <1>2, <1>3, <1>4 DEF IInv

LEMMA TypeNext ==
    ASSUME ApiServerAssumption, IInv, [ApiNext]_apiVars PROVE TypeOK'
  <1>1. CASE UNCHANGED apiVars
    BY <1>1 DEF IInv, TypeOK, apiVars, lock, request, answer
  <1> SUFFICES ASSUME NEW t \in Threads, Arrive(t) \/ Step(t) PROVE TypeOK'
    BY <1>1 DEF ApiNext
  <1>2. /\ queue' \in Seq(Threads) /\ owner' \in Threads \union {NoThread}
        /\ overlap' \in BOOLEAN
    <2>1. CASE UNCHANGED <<queue, owner>>
      BY <2>1, StepsOfTheLock DEF IInv, TypeOK
    <2>2. CASE Lock!Request(t) \/ Lock!Barge(t) \/ Lock!Enter(t) \/ Lock!Release(t)
      BY <2>2, LockSteps, StepsOfTheLock DEF IInv, TypeOK
    <2> QED
      BY <2>1, <2>2, StepsOfTheLock
  <1>3. stage' \in [Threads -> Stages]
    BY StagesMove DEF IInv
  <1>4. active' \in Int /\ inflight' \in Int
    BY DEF IInv, TypeOK, Arrive, Step, Acquire, Enter, NoRoute, TooLarge, Invoke,
           Handler, Run, Park, Unpark, Return, Fatal, Write, FreeAll, request
  <1>5. /\ owned' \in SUBSET Threads
        /\ objects' \in [Threads -> {"none", "live", "freed"}]
    <2>1. CASE FreeAll(t)
      BY <2>1, Zenon DEF IInv, TypeOK, FreeAll
    <2>2. CASE Run(t)
      BY <2>2 DEF IInv, TypeOK, Run
    <2>3. CASE UNCHANGED <<owned, objects>>
      BY <2>3 DEF IInv, TypeOK
    <2> QED
      BY <2>1, <2>2, <2>3
         DEF Arrive, Step, Acquire, Enter, NoRoute, TooLarge, Invoke,
             Handler, Park, Unpark, Return, Fatal, Write, request
  <1>6. stash' \in [Threads -> Live] /\ vm' \in Live
    <2>1. /\ vm \in Live /\ vm \in [Slices -> SUBSET Threads] /\ Blank \in Live
          /\ stash \in [Threads -> Live] /\ stash[t] \in Live
      BY DEF IInv, TypeOK, Live, Blank
    <2>2. /\ Opened(t) \in Live /\ Reset \in Live /\ Saved \in Live
          /\ Stashed \in Live /\ Restored(t) \in Live
      <3>1. Opened(t) \in Live /\ Reset \in Live
        BY <2>1 DEF Opened, Reset, Live
      <3>2. Saved \in Live /\ Stashed \in Live /\ Restored(t) \in Live
        BY <2>1 DEF Saved, Stashed, Restored, Live
      <3> QED
        BY <3>1, <3>2
    <2>3. CASE Run(t)
      BY <2>1, <2>3 DEF Run, Live
    <2>4. CASE Invoke(t)
      BY <2>1, <2>2, <2>4 DEF Invoke, Live
    <2>5. CASE NoRoute(t)
      BY <2>1, <2>5 DEF NoRoute, Live, request
    <2>6. CASE Park(t) \/ Unpark(t)
      BY <2>1, <2>2, <2>6 DEF Park, Unpark
    <2> QED
      BY <2>1, <2>2, <2>3, <2>4, <2>5, <2>6
         DEF Arrive, Step, Acquire, Enter, TooLarge, Handler, Return, Fatal,
             Write, Live, request
  <1>7. /\ reply' \in [Threads -> SUBSET Threads]
        /\ printed' \in [Threads -> SUBSET Threads]
    <2>1. CASE Return(t)
      <3>1. /\ vm["http"] \in SUBSET Threads /\ vm["ret"] \in SUBSET Threads
            /\ vm["output"] \in SUBSET Threads
        BY DEF IInv, TypeOK, Live, Slices
      <3> QED
        BY <2>1, <3>1 DEF Return, IInv, TypeOK
    <2> QED
      BY <2>1 DEF IInv, TypeOK, Arrive, Step, Acquire, Enter, NoRoute, TooLarge,
                  Invoke, Handler, Run, Park, Unpark, Fatal, Write, answer
  <1> QED
    BY <1>2, <1>3, <1>4, <1>5, <1>6, <1>7 DEF TypeOK

LEMMA LockNext ==
    ASSUME ApiServerAssumption, IInv, [ApiNext]_apiVars PROVE LockInv'
  <1>1. CASE UNCHANGED apiVars
    BY <1>1 DEF IInv, LockInv, apiVars, lock
  <1> SUFFICES ASSUME NEW t \in Threads, Arrive(t) \/ Step(t) PROVE LockInv'
    BY <1>1 DEF ApiNext
  <1>2. owner' # NoThread => queue' # <<>> /\ Head(queue') = owner'
    BY StepsOfTheLock, LockSteps DEF IInv, LockInv
  <1>3. ASSUME NEW u \in Threads, stage'[u] = "handler" PROVE owner' = u
    <2>1. CASE u = t
      BY <1>3, <2>1, StagesMove DEF IInv, LockInv, Lock!Enter
    <2>2. CASE u # t
      <3>1. owner = u
        BY <1>3, <2>2, StagesMove DEF IInv, LockInv
      <3> QED
        BY <2>2, <3>1, StepsOfTheLock, LockSteps
           DEF IInv, ApiServerAssumption
    <2> QED
      BY <2>1, <2>2
  <1> QED
    BY <1>2, <1>3 DEF LockInv

(* The places of a request's data after the step of one thread. *)
LEMMA DataNext ==
    ASSUME ApiServerAssumption, IInv, [ApiNext]_apiVars PROVE DataInv'
  <1>1. CASE UNCHANGED apiVars
    BY <1>1 DEF IInv, DataInv, CarriedIsOwn, Holds, InHandler, apiVars,
                lock, request, answer
  <1> SUFFICES ASSUME NEW t \in Threads, Arrive(t) \/ Step(t) PROVE DataInv'
    BY <1>1 DEF ApiNext
  <1>2. /\ stage \in [Threads -> Stages] /\ vm \in [Slices -> SUBSET Threads]
        /\ stash \in [Threads -> [Slices -> SUBSET Threads]]
        /\ reply \in [Threads -> SUBSET Threads]
    BY DEF IInv, TypeOK, Live
  <1>3. \A u \in Threads \ {t} : stage[t] = "handler" => stage[u] # "handler"
    BY DEF IInv, LockInv
  <1>4. CASE \/ Arrive(t) \/ Acquire(t) \/ Enter(t) \/ Write(t)
    <2>1. UNCHANGED <<vm, stash>> /\ \A u \in Threads : reply'[u] \subseteq reply[u]
      BY <1>2, <1>4 DEF Arrive, Acquire, Enter, Write, request, answer
    <2>2. \A u \in Threads :
              /\ stage'[u] = "handler" <=> stage[u] = "handler"
              /\ stage'[u] \in {"parked", "rejoin"} <=> stage[u] \in {"parked", "rejoin"}
      BY <1>2, <1>4 DEF Arrive, Acquire, Enter, Write, Goto
    <2>3. InHandler' = InHandler
      BY <2>2 DEF InHandler
    <2> QED
      BY <2>1, <2>2, <2>3 DEF IInv, DataInv, CarriedIsOwn, Holds, LockInv
  <1>5. CASE NoRoute(t) \/ TooLarge(t)
    <2>1. /\ UNCHANGED <<stash, reply>>
          /\ \A s \in Slices \ {"http"} : vm'[s] = vm[s]
      BY <1>2, <1>5 DEF NoRoute, TooLarge, Opened, request, answer
    <2>2. stage' = [stage EXCEPT ![t] = "late"] /\ stage[t] = "line" /\ owner = t
      BY <1>5 DEF NoRoute, TooLarge, Goto, Holds
    <2>3. InHandler' = InHandler
      BY <1>2, <2>2 DEF InHandler
    <2>4. \A u \in Threads : stage'[u] # "handler"
      BY <1>2, <2>2 DEF IInv, LockInv
    <2> QED
      BY <1>2, <2>1, <2>2, <2>3, <2>4
         DEF IInv, DataInv, CarriedIsOwn, Holds, Slices, Unsaved
  <1>6. CASE Invoke(t)
    <2>1. /\ stage' = [stage EXCEPT ![t] = "handler"] /\ UNCHANGED <<stash, reply>>
          /\ \A u \in Threads : stage[u] # "handler"
      BY <1>2, <1>6 DEF Invoke, Goto, Holds, IInv, LockInv, answer
    <2>2. /\ vm'["http"] = {t} /\ vm'["recovery"] = {t} /\ vm'["ret"] = {}
          /\ vm'["claims"] = {} /\ vm'["vars"] = {}
      BY <1>2, <1>6, <2>1 DEF Invoke, Opened, Slices, IInv, DataInv
    <2>3. t \in InHandler'
      BY <1>2, <2>1 DEF InHandler
    <2> QED
      BY <1>2, <2>1, <2>2, <2>3
         DEF IInv, DataInv, CarriedIsOwn, Holds, Slices, Unsaved
  <1>7. CASE Run(t)
    <2>1. stage[t] = "handler" /\ owner = t /\ UNCHANGED <<stage, owner, stash, reply>>
      BY <1>7 DEF Run, Holds, lock, answer
    <2>2. /\ \A s \in Slices \ Unsaved : vm'[s] \subseteq {t}
          /\ vm'["http"] = {t} /\ vm'["recovery"] = {t}
      BY <1>2, <1>7, <2>1
         DEF Run, Slices, Unsaved, IInv, DataInv, CarriedIsOwn, Holds
    <2>3. InHandler' = InHandler /\ t \in InHandler
      BY <2>1 DEF InHandler
    <2> QED
      BY <1>3, <2>1, <2>2, <2>3
         DEF IInv, DataInv, CarriedIsOwn, Holds
  <1>8. CASE Park(t)
    <2>1. /\ stage[t] = "handler" /\ owner = t /\ UNCHANGED reply
          /\ stage' = [stage EXCEPT ![t] = "parked"]
          /\ stash' = [stash EXCEPT ![t] = Stashed]
      BY <1>8 DEF Park, Holds, Goto, answer
    <2>2. /\ \A s \in Slices \ Unsaved : vm[s] \subseteq {t}
          /\ vm["http"] = {t} /\ vm["recovery"] = {t}
      BY <2>1 DEF IInv, DataInv, CarriedIsOwn, Holds
    <2>3. vm'["vars"] = {} /\ vm'["ret"] = {} /\ vm'["recovery"] = {t}
      BY <1>8, <2>2 DEF Park, Saved, Slices, Unsaved
    <2>5. /\ \A s \in Slices : stash'[t][s] \subseteq {t}
          /\ stash'[t]["recovery"] = {t} /\ stash'[t]["http"] = {t}
      BY <1>2, <2>1, <2>2 DEF Stashed, Slices, Unsaved
    <2>4. t \in InHandler' /\ \A u \in Threads : stage'[u] # "handler"
      BY <1>2, <1>3, <2>1 DEF InHandler
    <2> QED
      BY <1>2, <2>1, <2>3, <2>4, <2>5
         DEF IInv, DataInv, CarriedIsOwn, Holds
  <1>9. CASE Unpark(t)
    <2>1. /\ stage[t] = "rejoin" /\ owner = t /\ UNCHANGED reply
          /\ stage' = [stage EXCEPT ![t] = "handler"]
          /\ stash' = [stash EXCEPT ![t] = Blank] /\ vm' = Restored(t)
      BY <1>9 DEF Unpark, Holds, Goto, answer
    <2>2. /\ \A s \in Slices \ Unsaved : vm'[s] \subseteq {t}
          /\ vm'["http"] = {t} /\ vm'["recovery"] = {t}
      BY <2>1 DEF IInv, DataInv, CarriedIsOwn, Restored, Slices, Unsaved
    <2>3. \A u \in Threads, s \in Slices : stash'[u][s] \subseteq {u}
      BY <1>2, <2>1 DEF IInv, DataInv, CarriedIsOwn, Blank
    <2>4. t \in InHandler' /\ \A u \in Threads \ {t} : stage[u] # "handler"
      BY <1>2, <2>1 DEF InHandler, IInv, LockInv
    <2> QED
      BY <1>2, <2>1, <2>2, <2>3, <2>4
         DEF IInv, DataInv, CarriedIsOwn, Holds
  <1>10. CASE Return(t) \/ Fatal(t)
    <2>1. /\ stage[t] = "handler" /\ owner = t /\ UNCHANGED stash
          /\ \A u \in Threads \ {t} : stage'[u] = stage[u]
          /\ stage'[t] \in {"reply", "late"}
      BY <1>2, <1>10 DEF Return, Fatal, Holds, Goto
    <2>2. vm'["vars"] = {} /\ vm'["ret"] = {} /\ vm'["recovery"] = {}
      BY <1>2, <1>10 DEF Return, Fatal, Reset, Slices
    <2>3. \A u \in Threads : reply'[u] \subseteq {u}
      <3>1. vm["http"] \subseteq {t} /\ vm["ret"] \subseteq {t}
        BY <2>1 DEF IInv, DataInv, CarriedIsOwn, Holds, Slices, Unsaved
      <3>2. CASE Fatal(t)
        BY <3>2 DEF Fatal, IInv, DataInv, CarriedIsOwn, answer
      <3>3. CASE Return(t)
        <4>1. PICK body \in {"value", "output", "text"} : reply' = [reply EXCEPT ![t] =
                  vm["http"] \union (IF body = "value" THEN vm["ret"] ELSE {})]
          BY <3>3 DEF Return
        <4>2. reply'[t] \subseteq {t}
          BY <1>2, <3>1, <4>1
        <4>3. \A u \in Threads \ {t} : reply'[u] = reply[u]
          BY <1>2, <4>1
        <4> QED
          BY <4>2, <4>3 DEF IInv, DataInv, CarriedIsOwn
      <3> QED
        BY <1>10, <3>2, <3>3
    <2>4. \A u \in Threads : stage'[u] # "handler"
      BY <1>3, <2>1
    <2>5. /\ \A u \in Threads, s \in Slices : stash'[u][s] \subseteq {u}
          /\ \A u \in Threads : stage'[u] \in {"parked", "rejoin"} =>
                 stash'[u]["recovery"] = {u} /\ stash'[u]["http"] = {u}
      BY <2>1 DEF IInv, DataInv, CarriedIsOwn
    <2> QED
      BY <2>2, <2>3, <2>4, <2>5 DEF DataInv, CarriedIsOwn, Holds
  <1> QED
    BY <1>4, <1>5, <1>6, <1>7, <1>8, <1>9, <1>10 DEF Step, Handler

(* What a park leaves behind, after the step of one thread. *)
LEMMA UnsavedNext ==
    ASSUME ApiServerAssumption, IInv, [ApiNext]_apiVars PROVE UnsavedInv'
  <1>1. CASE UNCHANGED apiVars
    BY <1>1 DEF IInv, UnsavedInv, UnsavedIsOwn, Holds, InHandler, apiVars, lock,
                request, answer
  <1> SUFFICES ASSUME NEW t \in Threads, Arrive(t) \/ Step(t) PROVE UnsavedInv'
    BY <1>1 DEF ApiNext
  <1>2. /\ stage \in [Threads -> Stages] /\ vm \in [Slices -> SUBSET Threads]
        /\ objects \in [Threads -> {"none", "live", "freed"}]
        /\ printed \in [Threads -> SUBSET Threads]
        /\ UNCHANGED overlap
    BY StepsOfTheLock DEF IInv, TypeOK, Live
  <1>3. \A u \in Threads \ {t} : stage[t] = "handler" => stage[u] # "handler"
    BY DEF IInv, LockInv
  <1>4. CASE \/ Arrive(t) \/ Acquire(t) \/ Enter(t) \/ Write(t)
             \/ NoRoute(t) \/ TooLarge(t)
    <2>1. /\ UNCHANGED <<owned, objects>>
          /\ vm'["output"] = vm["output"] /\ vm'["thrown"] = vm["thrown"]
          /\ \A u \in Threads : printed'[u] \subseteq printed[u]
      BY <1>2, <1>4 DEF Arrive, Acquire, Enter, Write, NoRoute, TooLarge, Opened,
                        Slices, request, answer
    <2>2. \A u \in Threads :
              /\ stage'[u] = "handler" <=> stage[u] = "handler"
              /\ stage'[u] \in {"parked", "rejoin"} <=> stage[u] \in {"parked", "rejoin"}
      BY <1>2, <1>4 DEF Arrive, Acquire, Enter, Write, NoRoute, TooLarge, Goto, Holds
    <2>3. InHandler' = InHandler
      BY <2>2 DEF InHandler
    <2> QED
      BY <1>2, <2>1, <2>2, <2>3 DEF IInv, UnsavedInv, UnsavedIsOwn, Holds, LockInv
  <1>5. CASE Invoke(t)
    <2>1. /\ stage' = [stage EXCEPT ![t] = "handler"] /\ stage[t] = "line"
          /\ UNCHANGED <<owned, objects, printed>>
          /\ \A u \in Threads : stage[u] # "handler"
      BY <1>2, <1>5 DEF Invoke, Goto, Holds, IInv, LockInv, answer
    <2>2. vm'["output"] = vm["output"]
      BY <1>2, <1>5 DEF Invoke, Opened, Slices
    <2>3. InHandler' = InHandler \union {t} /\ t \notin InHandler
      BY <1>2, <2>1 DEF InHandler
    <2>4. ~overlap => InHandler = {}
      BY <2>1 DEF IInv, UnsavedInv, InHandler
    <2> QED
      BY <1>2, <2>1, <2>2, <2>3, <2>4 DEF IInv, UnsavedInv, UnsavedIsOwn, Holds
  <1>6. CASE Run(t)
    <2>1. /\ stage[t] = "handler" /\ owner = t /\ UNCHANGED <<stage, owner, printed>>
          /\ owned' \subseteq owned \union {t}
          /\ objects' = [objects EXCEPT ![t] = "live"]
      BY <1>6 DEF Run, Holds, lock, answer
    <2>2. vm'["output"] = vm["output"] \union {t} /\ vm'["thrown"] = {t}
      BY <1>2, <1>6 DEF Run, Slices
    <2>3. InHandler' = InHandler /\ t \in InHandler
      BY <2>1 DEF InHandler
    <2>4. ~overlap => vm["output"] \subseteq {t}
      BY <2>1 DEF IInv, UnsavedInv, UnsavedIsOwn, Holds
    <2> QED
      BY <1>2, <1>3, <2>1, <2>2, <2>3, <2>4 DEF IInv, UnsavedInv, UnsavedIsOwn, Holds
  <1>7. CASE Park(t) \/ Unpark(t)
    <2>1. /\ overlap /\ UNCHANGED <<owned, objects>>
      BY <1>7 DEF Park, Unpark, MayYield, Holds, IInv, UnsavedInv
    <2>2. vm'["output"] = vm["output"]
      BY <1>2, <1>7 DEF Park, Unpark, Saved, Restored, Slices, Unsaved
    <2>3. InHandler' = InHandler
      BY <1>2, <1>7 DEF Park, Unpark, Holds, Goto, InHandler
    <2> QED
      BY <1>2, <2>1, <2>2, <2>3 DEF IInv, UnsavedInv
  <1>8. CASE Return(t) \/ Fatal(t)
    <2>1. /\ stage[t] = "handler" /\ owner = t /\ FreeAll(t)
          /\ \A u \in Threads \ {t} : stage'[u] = stage[u]
          /\ stage'[t] \in {"reply", "late"} /\ vm' = Reset
      BY <1>2, <1>8 DEF Return, Fatal, Holds, Goto
    <2>2. InHandler' = InHandler \ {t} /\ t \in InHandler
      BY <2>1 DEF InHandler
    <2>3. vm'["output"] = {}
      BY <1>2, <2>1 DEF Reset, Slices
    <2>4. objects'[t] = "none"
      BY <1>2, <2>1 DEF FreeAll, IInv, CountInv
    <2>5. \A u \in Threads \ {t} : objects'[u] = IF u \in owned THEN "freed" ELSE objects[u]
      BY <1>2, <2>1 DEF FreeAll
    <2>6. ~overlap => InHandler = {t}
      BY <1>3, <2>1, <2>2 DEF IInv, UnsavedInv, InHandler
    <2>7. ~overlap => \A u \in Threads : printed'[u] \subseteq {u}
      <3>1. ~overlap => vm["output"] \subseteq {t}
        BY <2>1 DEF IInv, UnsavedInv, UnsavedIsOwn, Holds
      <3>2. CASE Return(t)
        BY <1>2, <3>1, <3>2 DEF Return, IInv, UnsavedInv, UnsavedIsOwn
      <3>3. CASE Fatal(t)
        BY <3>3 DEF Fatal, answer, IInv, UnsavedInv, UnsavedIsOwn
      <3> QED
        BY <1>8, <3>2, <3>3
    <2>8. owned' = {} /\ \A u \in Threads : stage'[u] # "handler"
      BY <1>3, <2>1 DEF FreeAll
    <2>9. \A u \in Threads : objects'[u] # "none" => u \in InHandler'
      BY <2>2, <2>4, <2>5 DEF IInv, UnsavedInv
    <2>10. ~overlap => \A u \in Threads : /\ stage'[u] \notin {"parked", "rejoin"}
                                           /\ objects'[u] # "freed"
      BY <2>1, <2>4, <2>5, <2>6 DEF IInv, UnsavedInv
    <2> QED
      BY <1>2, <2>3, <2>7, <2>8, <2>9, <2>10 DEF UnsavedInv, UnsavedIsOwn, Holds
  <1> QED
    BY <1>4, <1>5, <1>6, <1>7, <1>8 DEF Step, Handler

(* One thread more, or one less, is one more, or one less, in the count. *)
LEMMA OneMoreOneLess ==
    ASSUME ApiServerAssumption, NEW S \in SUBSET Threads, NEW t \in Threads
    PROVE  /\ Cardinality(S) \in Nat
           /\ t \notin S => Cardinality(S \union {t}) = Cardinality(S) + 1
           /\ t \in S => Cardinality(S \ {t}) = Cardinality(S) - 1
           /\ t \in S => Cardinality(S) > 0
  <1>1. IsFiniteSet(S) /\ IsFiniteSet(S \ {t})
    BY ThreadsFinite
  <1>2. Cardinality(S) \in Nat /\ Cardinality(S \ {t}) \in Nat
    BY <1>1, FS_CardinalityType
  <1>3. t \notin S => Cardinality(S \union {t}) = Cardinality(S) + 1
    BY <1>1, FS_AddElement
  <1>4. t \in S => Cardinality(S \ {t}) = Cardinality(S) - 1
    BY <1>1, FS_RemoveElement
  <1> QED
    BY <1>2, <1>3, <1>4

(* S()->inflight counts the requests between their entry and their response  *)
(* or error.                                                                 *)
LEMMA InflightNext ==
    ASSUME ApiServerAssumption, IInv, NEW t \in Threads, Arrive(t) \/ Step(t)
    PROVE  inflight' = Cardinality(Counted')
  <1>1. stage \in [Threads -> Stages] /\ Counted \in SUBSET Threads
    BY DEF IInv, TypeOK, Counted
  <1>2. inflight = Cardinality(Counted)
    BY DEF IInv, CountInv
  <1>3. CASE Arrive(t)
    <2>1. Counted' = Counted \union {t} /\ t \notin Counted
      BY <1>1, <1>3 DEF Arrive, Goto, Counted
    <2> QED
      BY <1>1, <1>2, <1>3, <2>1, OneMoreOneLess DEF Arrive
  <1>4. CASE inflight' = inflight - 1 /\ stage[t] \in {"line", "handler", "reply"}
             /\ stage' \in {[stage EXCEPT ![t] = "idle"], [stage EXCEPT ![t] = "late"]}
    <2>1. Counted' = Counted \ {t} /\ t \in Counted
      BY <1>1, <1>4 DEF Counted
    <2> QED
      BY <1>1, <1>2, <1>4, <2>1, OneMoreOneLess
  <1>5. CASE /\ UNCHANGED inflight
             /\ \A u \in Threads \ {t} : stage'[u] = stage[u]
             /\ stage[t] \in {"idle", "late"} <=> stage'[t] \in {"idle", "late"}
    <2>1. Counted' = Counted
      BY <1>5 DEF Counted
    <2> QED
      BY <1>2, <1>5, <2>1
  <1>6. CASE NoRoute(t) \/ TooLarge(t) \/ Fatal(t) \/ (Write(t) /\ stage[t] = "reply")
    BY <1>4, <1>6 DEF NoRoute, TooLarge, Fatal, Write, Holds, Goto
  <1>7. CASE \/ Acquire(t) \/ Enter(t) \/ Invoke(t) \/ Run(t) \/ Park(t)
             \/ Unpark(t) \/ Return(t) \/ (Write(t) /\ stage[t] # "reply")
    BY <1>1, <1>5, <1>7
       DEF Acquire, Enter, Invoke, Run, Park, Unpark, Return, Write, Holds, Goto
  <1> QED
    BY <1>3, <1>6, <1>7 DEF Step, Handler

(* te_request_active, the registry and the objects of the requests. *)
LEMMA CountNext ==
    ASSUME ApiServerAssumption, IInv, [ApiNext]_apiVars PROVE CountInv'
  <1>1. CASE UNCHANGED apiVars
    BY <1>1 DEF IInv, CountInv, InHandler, Counted, apiVars, lock, request
  <1> SUFFICES ASSUME NEW t \in Threads, Arrive(t) \/ Step(t) PROVE CountInv'
    BY <1>1 DEF ApiNext
  <1>2. /\ stage \in [Threads -> Stages] /\ InHandler \in SUBSET Threads
        /\ objects \in [Threads -> {"none", "live", "freed"}]
        /\ owned \in SUBSET Threads /\ active = Cardinality(InHandler)
        /\ InHandler = {} => owned = {}
        /\ \A u \in Threads : objects[u] = "live" => u \in owned /\ u \in InHandler
    BY DEF IInv, TypeOK, CountInv, InHandler
  <1>3. inflight' = Cardinality(Counted')
    BY InflightNext
  <1>4. CASE /\ UNCHANGED <<active, owned, objects>>
             /\ \A u \in Threads \ {t} : stage'[u] = stage[u]
             /\ stage[t] \in {"handler", "parked", "rejoin"}
                    <=> stage'[t] \in {"handler", "parked", "rejoin"}
    <2>1. InHandler' = InHandler
      BY <1>4 DEF InHandler
    <2> QED
      BY <1>2, <1>3, <1>4, <2>1 DEF CountInv
  <1>5. CASE Invoke(t)
    <2>1. /\ InHandler' = InHandler \union {t} /\ t \notin InHandler
          /\ active' = active + 1 /\ UNCHANGED <<owned, objects>>
      BY <1>2, <1>5 DEF Invoke, Holds, Goto, InHandler
    <2>2. active' = Cardinality(InHandler')
      BY <1>2, <2>1, OneMoreOneLess
    <2> QED
      BY <1>2, <1>3, <2>1, <2>2 DEF CountInv
  <1>6. CASE Run(t)
    <2>1. InHandler' = InHandler /\ t \in InHandler
      BY <1>6 DEF Run, Holds, InHandler
    <2>2. owned' = owned \union {t}
      BY <1>2, <1>6, <2>1, OneMoreOneLess DEF Run
    <2> QED
      BY <1>2, <1>3, <1>6, <2>1, <2>2 DEF CountInv, Run
  <1>7. CASE Return(t) \/ Fatal(t)
    <2>1. /\ InHandler' = InHandler \ {t} /\ t \in InHandler /\ FreeAll(t)
      BY <1>2, <1>7 DEF Return, Fatal, Holds, Goto, InHandler
    <2>2. active' = Cardinality(InHandler')
      BY <1>2, <2>1, OneMoreOneLess DEF FreeAll
    <2>3. \A u \in Threads : objects'[u] # "live"
      BY <1>2, <2>1 DEF FreeAll
    <2> QED
      BY <1>3, <2>1, <2>2, <2>3 DEF CountInv, FreeAll
  <1>8. CASE \/ Arrive(t) \/ Acquire(t) \/ Enter(t) \/ NoRoute(t) \/ TooLarge(t)
             \/ Park(t) \/ Unpark(t) \/ Write(t)
    BY <1>2, <1>4, <1>8
       DEF Arrive, Acquire, Enter, NoRoute, TooLarge, Park, Unpark, Write, Holds,
           Goto, request
  <1> QED
    BY <1>5, <1>6, <1>7, <1>8 DEF Step, Handler

(* The inductive invariant implies what the runs check. *)
LEMMA InvImplies ==
    ASSUME IInv PROVE HandlerSeesItsOwn /\ NothingLeftBehind
  <1>1. InHandler = {} => /\ owned = {}
                          /\ \A s \in {"vars", "ret", "recovery", "output"} : vm[s] = {}
    <2> HAVE InHandler = {}
    <2>1. \A t \in Threads : stage[t] # "handler"
      BY DEF InHandler
    <2> QED
      BY <2>1 DEF IInv, DataInv, CountInv, UnsavedInv
  <1>2. \A t \in Threads \ InHandler : objects[t] # "live"
    BY DEF IInv, CountInv
  <1>3. HandlerSeesItsOwn
    BY DEF IInv, DataInv, UnsavedInv, HandlerSeesItsOwn
  <1> QED
    BY <1>1, <1>2, <1>3 DEF IInv, CountInv, Counted, NothingLeftBehind

(* The inductive invariant holds in every reachable state. *)
LEMMA Invariant ==
    ASSUME ApiServerAssumption PROVE ApiSpec => []IInv
  <1>1. ApiInit => IInv
    BY InitInv
  <1>2. IInv /\ [ApiNext]_apiVars => IInv'
    BY TypeNext, LockNext, DataNext, CountNext, UnsavedNext DEF IInv
  <1> QED
    BY <1>1, <1>2, PTL DEF ApiSpec

(* The state has its types, and handler code runs only on the thread that is *)
(* inside the lock, which is the head of its line: never two at a time.      *)
THEOREM HandlersExclude ==
    ASSUME ApiServerAssumption
    PROVE  ApiSpec => [](TypeOK /\ LockInv)
  <1>1. IInv => TypeOK /\ LockInv
    BY DEF IInv
  <1> QED
    BY <1>1, Invariant, PTL

(* While a handler's code runs, what te_reqstate_save carries of the         *)
(* interpreter is its own, also after any number of requests parked and came *)
(* back; what it leaves there is its own when no request parks.              *)
THEOREM RequestsIsolated ==
    ASSUME ApiServerAssumption PROVE ApiSpec => []HandlerSeesItsOwn
  BY Invariant, InvImplies, PTL

(* Every way out of a handler gives back what the request took, and the two  *)
(* counters count.                                                           *)
THEOREM RequestsCleanUp ==
    ASSUME ApiServerAssumption PROVE ApiSpec => []NothingLeftBehind
  BY Invariant, InvImplies, PTL

-----------------------------------------------------------------------------
(* AsyncTasks.                                                              *)

TaskStates == {"FREE", "SPAWN_PENDING", "RUNNING", "IO_WAIT", "DONE"}

TaskTypeOK ==
    /\ holder \in Owners \union {NoOwner}
    /\ left \in [Owners -> Nat]
    /\ loops \in [Owners -> Seq(Loop)]
    /\ state \in [Ids -> TaskStates]
    /\ slot \in [Ids -> Slots \union {NoSlot}]
    /\ call \in [Ids -> Int] /\ result \in [Ids -> Int]
    /\ child \in [Slots -> {"none", "open", "dead"}]
    /\ user \in [Slots -> Owners \union {NoOwner}]
    /\ asked \in [Slots -> Seq(Int)] /\ lines \in [Slots -> Seq(Int)]

(* The lambda of a loop is a task that runs, and no other loop's.           *)
RunInv ==
    \A o, q \in Owners : \A d \in 1 .. Len(loops[o]), e \in 1 .. Len(loops[q]) :
        loops[o][d].running # NoTask =>
            /\ state[loops[o][d].running] = "RUNNING"
            /\ loops[q][e].running = loops[o][d].running => q = o /\ e = d

(* What a child has of a call that waits: its request, or its answer, or,    *)
(* the child being gone, nothing.                                           *)
Outstanding(s, i) ==
    \/ asked[s] = <<call[i]>> /\ lines[s] = <<>> /\ child[s] = "open"
    \/ asked[s] = <<>> /\ lines[s] = <<call[i]>>
    \/ asked[s] = <<>> /\ lines[s] = <<>> /\ child[s] # "open"

(* One call at most waits for a child, and the child has nothing else.       *)
ChildInv ==
    /\ \A i \in Ids : state[i] = "IO_WAIT" => slot[i] \in Slots
    /\ \A s \in Slots :
           /\ user[s] # NoOwner => child[s] # "none"
           /\ Waiting(s) = {} => asked[s] = <<>> /\ lines[s] = <<>>
           /\ \A i \in Waiting(s) : /\ Waiting(s) = {i}
                                    /\ child[s] # "none" /\ Outstanding(s, i)

TaskInv == TaskTypeOK /\ RunInv /\ ChildInv

-----------------------------------------------------------------------------
(* The front of a sequence, element by element.                             *)
LEMMA FrontFacts ==
    ASSUME NEW F, NEW s \in Seq(F), NEW n \in Nat \ {0}, n = Len(s)
    PROVE  /\ SubSeq(s, 1, n - 1) \in Seq(F)
           /\ Len(SubSeq(s, 1, n - 1)) = n - 1
           /\ \A i \in 1 .. n - 1 : SubSeq(s, 1, n - 1)[i] = s[i]
  <1>1. \A i \in 1 .. n - 1 : s[i] \in F
    BY ElementOfSeq
  <1> DEFINE b == SubSeq(s, 1, n - 1)
  <1>2. /\ b \in Seq(F)
        /\ Len(b) = IF 1 <= n - 1 THEN (n - 1) - 1 + 1 ELSE 0
        /\ \A i \in 1 .. (n - 1) - 1 + 1 : b[i] = s[1 + i - 1]
    BY <1>1, SubSeqProperties
  <1> HIDE DEF b
  <1>3. (IF 1 <= n - 1 THEN (n - 1) - 1 + 1 ELSE 0) = n - 1
    OBVIOUS
  <1>4. Len(b) = n - 1
    BY <1>2, <1>3, Zenon
  <1>5. (n - 1) - 1 + 1 = n - 1 /\ \A i \in 1 .. n - 1 : 1 + i - 1 = i
    OBVIOUS
  <1>6. \A i \in 1 .. n - 1 : b[i] = s[i]
    BY <1>2, <1>5, Zenon
  <1> QED
    BY <1>2, <1>4, <1>6 DEF b

(* A loop is changed at the top of the stack of its thread only.            *)
LEMMA TopOf ==
    ASSUME NEW s \in Seq(Loop), s # <<>>
    PROVE  /\ Len(s) \in Nat \ {0} /\ Last(s) = s[Len(s)] /\ Last(s) \in Loop
           /\ Front(s) \in Seq(Loop) /\ Len(Front(s)) = Len(s) - 1
           /\ \A d \in 1 .. Len(s) - 1 : Front(s)[d] = s[d]
           /\ \A l \in Loop : /\ Append(Front(s), l) \in Seq(Loop)
                              /\ Len(Append(Front(s), l)) = Len(s)
                              /\ Append(Front(s), l)[Len(s)] = l
                              /\ \A d \in 1 .. Len(s) - 1 :
                                     Append(Front(s), l)[d] = s[d]
  <1> DEFINE n == Len(s)
             f == Front(s)
  <1>1. n \in Nat \ {0} /\ \A d \in 1 .. n : s[d] \in Loop
    BY EmptySeq, LenProperties, ElementOfSeq
  <1>2. Last(s) = s[n]
    BY DEF Last
  <1>3. /\ f \in Seq(Loop) /\ Len(f) = n - 1
        /\ \A d \in 1 .. n - 1 : f[d] = s[d]
    BY <1>1, FrontFacts DEF Front
  <1> HIDE DEF n, f
  <1>4. ASSUME NEW l \in Loop
        PROVE  /\ Append(f, l) \in Seq(Loop) /\ Len(Append(f, l)) = n
               /\ Append(f, l)[n] = l
               /\ \A d \in 1 .. n - 1 : Append(f, l)[d] = s[d]
    BY <1>1, <1>3, AppendProperties
  <1> QED
    BY <1>1, <1>2, <1>3, <1>4 DEF n, f

LEMMA TaskInitInv ==
    ASSUME AsyncTasksAssumption, TaskInit PROVE TaskInv
  <1>1. TaskTypeOK
    BY EmptySeq DEF TaskInit, TaskTypeOK, TaskStates, Empty
  <1>2. RunInv
    BY EmptySeq DEF TaskInit, RunInv
  <1>3. ChildInv
    BY DEF TaskInit, ChildInv, Waiting
  <1> QED
    BY <1>1, <1>2, <1>3 DEF TaskInv

-----------------------------------------------------------------------------
(* Types.  What SetLoop does to the stacks. *)
LEMMA SetLoopIs ==
    ASSUME TaskTypeOK, NEW o \in Owners, loops[o] # <<>>, NEW l \in Loop,
           SetLoop(o, l)
    PROVE  /\ loops' \in [Owners -> Seq(Loop)]
           /\ \A q \in Owners \ {o} : loops'[q] = loops[q]
           /\ Len(loops'[o]) = Len(loops[o])
           /\ loops'[o][Len(loops[o])] = l
           /\ \A d \in 1 .. Len(loops[o]) - 1 : loops'[o][d] = loops[o][d]
  <1> DEFINE s == loops[o]
             t == Append(Front(s), l)
  <1>1. s \in Seq(Loop) /\ s # <<>>
    BY DEF TaskTypeOK
  <1>2. /\ t \in Seq(Loop) /\ Len(t) = Len(s) /\ t[Len(s)] = l
        /\ \A d \in 1 .. Len(s) - 1 : t[d] = s[d]
    BY <1>1, TopOf
  <1>3. loops' = [loops EXCEPT ![o] = t]
    BY DEF SetLoop
  <1> HIDE DEF t
  <1>4. loops'[o] = t /\ \A q \in Owners \ {o} : loops'[q] = loops[q]
    BY <1>3 DEF TaskTypeOK
  <1>5. loops' \in [Owners -> Seq(Loop)]
    BY <1>2, <1>3 DEF TaskTypeOK
  <1> QED
    BY <1>2, <1>4, <1>5

(* A pass that goes on changes a loop to one, and not what it awaits. *)
LEMMA LoopGoesOn ==
    ASSUME AsyncTasksAssumption, NEW l \in Loop, NEW i \in Ids
    PROVE  /\ [l EXCEPT !.at = Head0] \in Loop
           /\ [l EXCEPT !.at = 0, !.progressed = FALSE] \in Loop
           /\ [l EXCEPT !.at = After(i)] \in Loop
           /\ [l EXCEPT !.at = After(i), !.running = i] \in Loop
           /\ [[l EXCEPT !.at = After(i)] EXCEPT !.progressed = TRUE] \in Loop
           /\ [l EXCEPT !.running = NoTask, !.progressed = TRUE] \in Loop
  <1>1. Head0 \in Head0 .. TaskMax /\ 0 \in Head0 .. TaskMax
        /\ After(i) \in Head0 .. TaskMax
    BY DEF AsyncTasksAssumption, Head0, Ids, After
  <1> QED
    BY <1>1 DEF Loop

LEMMA TopLoop ==
    ASSUME TaskTypeOK, NEW o \in Owners, loops[o] # <<>>
    PROVE  /\ Last(loops[o]) \in Loop /\ Len(loops[o]) \in Nat \ {0}
           /\ Last(loops[o]) = loops[o][Len(loops[o])]
  BY TopOf DEF TaskTypeOK

LEMMA NewTaskIs ==
    ASSUME AsyncTasksAssumption, TaskTypeOK, NEW o \in Owners, NEW i \in Ids,
           NEW st \in TaskStates, NEW s \in Slots \union {NoSlot},
           NewTask(o, i, st, s)
    PROVE  /\ state[i] = "FREE" /\ state'[i] = st /\ slot'[i] = s
           /\ \A j \in Ids \ {i} : /\ state'[j] = state[j] /\ slot'[j] = slot[j]
                                   /\ call'[j] = call[j]
           /\ s # NoSlot => call'[i] = left[o]
           /\ state' \in [Ids -> TaskStates]
           /\ slot' \in [Ids -> Slots \union {NoSlot}]
           /\ call' \in [Ids -> Int] /\ result' \in [Ids -> Int]
  BY DEF NewTask, IsFirst, FreeIds, TaskTypeOK, Empty

LEMMA StartsIs ==
    ASSUME TaskTypeOK, NEW o \in Owners, Starts(o)
    PROVE  left' \in [Owners -> Nat] /\ left[o] \in Nat \ {0}
  BY DEF Starts, TaskTypeOK

(* Every step keeps the types. *)
LEMMA TaskTypeNext ==
    ASSUME AsyncTasksAssumption, TaskInv, [TaskNext]_taskVars
    PROVE  TaskTypeOK'
  <1>0. TaskTypeOK
    BY DEF TaskInv
  <1>1. CASE UNCHANGED taskVars
    BY <1>0, <1>1 DEF taskVars, TaskTypeOK
  <1>2. ASSUME NEW s \in Slots, Answer(s) \/ Die(s) PROVE TaskTypeOK'
    <2>1. CASE Answer(s)
      <3>1. asked[s] \in Seq(Int) /\ lines[s] \in Seq(Int) /\ asked[s] # <<>>
        BY <1>0, <2>1 DEF Answer, TaskTypeOK
      <3>2. Head(asked[s]) \in Int /\ Tail(asked[s]) \in Seq(Int)
        BY <3>1, HeadTailProperties
      <3>3. Append(lines[s], Head(asked[s])) \in Seq(Int)
        BY <3>1, <3>2, AppendProperties
      <3> QED
        BY <1>0, <2>1, <3>2, <3>3 DEF Answer, TaskTypeOK, pool
    <2>2. CASE Die(s)
      BY <1>0, <2>2, EmptySeq DEF Die, TaskTypeOK, pool
    <2> QED
      BY <1>2, <2>1, <2>2
  <1> SUFFICES ASSUME NEW o \in Owners, Begin(o) \/ OwnerStep(o) \/ Rejoin(o)
               PROVE  TaskTypeOK'
    BY <1>1, <1>2 DEF TaskNext
  <1>3. CASE Begin(o) \/ End(o) \/ Rejoin(o)
    BY <1>0, <1>3
       DEF Begin, End, Rejoin, TaskTypeOK, AsyncTasksAssumption, pool, procs
  <1>4. CASE Spawn(o)
    <2>1. PICK i \in Ids : NewTask(o, i, "SPAWN_PENDING", NoSlot)
      BY <1>4 DEF Spawn
    <2>2. "SPAWN_PENDING" \in TaskStates /\ NoSlot \in Slots \union {NoSlot}
      BY DEF TaskStates
    <2> QED
      BY <1>0, <1>4, <2>1, <2>2, NewTaskIs, StartsIs DEF Spawn, TaskTypeOK, procs
  <1>5. CASE LangCallAsync(o)
    <2>1. PICK s \in Slots, i \in Ids :
             /\ NewTask(o, i, "IO_WAIT", s)
             /\ asked' = IF child[s] = "open"
                         THEN [asked EXCEPT ![s] = Append(@, left[o])] ELSE asked
      BY <1>5 DEF LangCallAsync
    <2>2. "IO_WAIT" \in TaskStates
      BY DEF TaskStates
    <2>3. left[o] \in Int /\ asked[s] \in Seq(Int)
      BY <1>0 DEF TaskTypeOK
    <2>4. Append(asked[s], left[o]) \in Seq(Int)
      BY <2>3, AppendProperties
    <2>5. asked' \in [Slots -> Seq(Int)]
      BY <1>0, <2>1, <2>4 DEF TaskTypeOK
    <2> QED
      BY <1>0, <1>5, <2>1, <2>2, <2>5, NewTaskIs, StartsIs
         DEF LangCallAsync, TaskTypeOK
  <1>6. CASE LangSpawn(o) \/ LangClose(o)
    <2>1. CASE LangSpawn(o)
      BY <1>0, <2>1, StartsIs DEF LangSpawn, TaskTypeOK, pool
    <2>2. CASE LangClose(o)
      BY <1>0, <2>2, EmptySeq DEF LangClose, TaskTypeOK, pool
    <2> QED
      BY <1>6, <2>1, <2>2
  <1>7. CASE Await(o)
    <2>1. PICK T \in SUBSET Ids :
             loops' = [loops EXCEPT ![o] =
                 Append(@, [targets |-> T, at |-> Head0, progressed |-> FALSE,
                            running |-> NoTask])]
      BY <1>7 DEF Await, Owned
    <2> DEFINE l == [targets |-> T, at |-> Head0, progressed |-> FALSE,
                     running |-> NoTask]
    <2>2. l \in Loop
      BY DEF Loop, Head0, AsyncTasksAssumption
    <2>3. Append(loops[o], l) \in Seq(Loop)
      BY <1>0, <2>2, AppendProperties DEF TaskTypeOK
    <2> QED
      BY <1>0, <1>7, <2>1, <2>3 DEF Await, TaskTypeOK, pool, procs
  <1>8. CASE AwaitReturns(o)
    <2>1. Front(loops[o]) \in Seq(Loop)
      BY <1>0, <1>8, TopOf DEF AwaitReturns, Loops, TaskTypeOK
    <2>2. state' \in [Ids -> TaskStates]
      BY <1>0, <1>8 DEF AwaitReturns, TaskTypeOK, TaskStates
    <2> QED
      BY <1>0, <1>8, <2>1, <2>2 DEF AwaitReturns, TaskTypeOK, procs
  <1> DEFINE l == Last(loops[o])
  <1>9. CASE StartPass(o) \/ PassEnds(o) \/ WaitParked(o)
    <2>1. l \in Loop /\ loops[o] # <<>>
      BY <1>0, <1>9, TopLoop DEF StartPass, PassEnds, WaitParked, PassOver, Loops
    <2>2. 0 \in Ids
      BY DEF Ids, AsyncTasksAssumption
    <2>3. loops' \in [Owners -> Seq(Loop)]
      BY <1>0, <1>9, <2>1, <2>2, LoopGoesOn, SetLoopIs
         DEF StartPass, PassEnds, WaitParked
    <2> QED
      BY <1>0, <1>9, <2>3
         DEF StartPass, PassEnds, WaitParked, TaskTypeOK, pool, procs
  <1>10. CASE RunLambda(o)
    <2>1. PICK i \in Ids :
             /\ state' = [state EXCEPT ![i] = "RUNNING"]
             /\ SetLoop(o, [l EXCEPT !.at = After(i), !.running = i])
      BY <1>10 DEF RunLambda
    <2>2. l \in Loop /\ loops[o] # <<>>
      BY <1>0, <1>10, TopLoop DEF RunLambda, Loops
    <2>3. loops' \in [Owners -> Seq(Loop)]
      BY <1>0, <2>1, <2>2, LoopGoesOn, SetLoopIs
    <2>4. state' \in [Ids -> TaskStates]
      BY <1>0, <2>1 DEF TaskTypeOK, TaskStates
    <2> QED
      BY <1>0, <1>10, <2>3, <2>4 DEF RunLambda, TaskTypeOK, procs
  <1>11. CASE LambdaReturns(o)
    <2>1. l \in Loop /\ loops[o] # <<>>
      BY <1>0, <1>11, TopLoop DEF LambdaReturns
    <2>2. 0 \in Ids
      BY DEF Ids, AsyncTasksAssumption
    <2>3. loops' \in [Owners -> Seq(Loop)]
      BY <1>0, <1>11, <2>1, <2>2, LoopGoesOn, SetLoopIs DEF LambdaReturns
    <2>4. state' \in [Ids -> TaskStates]
      BY <1>0, <1>11 DEF LambdaReturns, TaskTypeOK, TaskStates
    <2> QED
      BY <1>0, <1>11, <2>3, <2>4 DEF LambdaReturns, TaskTypeOK, procs
  <1>12. CASE Poll(o)
    <2>1. PICK i \in Ids :
             /\ IsNext(o, i) /\ state[i] = "IO_WAIT"
             /\ \/ /\ lines[slot[i]] # <<>>
                   /\ lines' = [lines EXCEPT ![slot[i]] = LinesAfter(slot[i])]
                   /\ result' = [result EXCEPT ![i] = Head(lines[slot[i]])]
                   /\ state' = [state EXCEPT ![i] = "DONE"]
                   /\ SetLoop(o, [[l EXCEPT !.at = After(i)] EXCEPT !.progressed = TRUE])
                \/ /\ result' = [result EXCEPT ![i] = Empty]
                   /\ state' = [state EXCEPT ![i] = "DONE"]
                   /\ SetLoop(o, [[l EXCEPT !.at = After(i)] EXCEPT !.progressed = TRUE])
                   /\ UNCHANGED lines
                \/ /\ SetLoop(o, [l EXCEPT !.at = After(i)])
                   /\ UNCHANGED <<lines, result, state>>
      BY <1>12 DEF Poll
    <2>2. l \in Loop /\ loops[o] # <<>>
      BY <1>0, <1>12, TopLoop DEF Poll, Loops
    <2>3. loops' \in [Owners -> Seq(Loop)]
      BY <1>0, <2>1, <2>2, LoopGoesOn, SetLoopIs
    <2>4. state' \in [Ids -> TaskStates]
      BY <1>0, <2>1 DEF TaskTypeOK, TaskStates
    <2>5. slot[i] \in Slots
      BY <1>0, <2>1 DEF TaskInv, TaskTypeOK, ChildInv
    <2>6. lines' \in [Slots -> Seq(Int)] /\ result' \in [Ids -> Int]
      <3>1. lines[slot[i]] \in Seq(Int)
        BY <1>0, <2>5 DEF TaskTypeOK
      <3>2. lines[slot[i]] # <<>> => /\ Head(lines[slot[i]]) \in Int
                                     /\ Tail(lines[slot[i]]) \in Seq(Int)
        BY <3>1, HeadTailProperties
      <3> QED
        <4>1. CASE UNCHANGED lines /\ result' = [result EXCEPT ![i] = Empty]
          BY <1>0, <4>1 DEF TaskTypeOK, Empty
        <4>2. CASE UNCHANGED <<lines, result>>
          BY <1>0, <4>2 DEF TaskTypeOK
        <4>3. CASE /\ lines[slot[i]] # <<>>
                   /\ lines' = [lines EXCEPT ![slot[i]] = LinesAfter(slot[i])]
                   /\ result' = [result EXCEPT ![i] = Head(lines[slot[i]])]
          <5>1. LinesAfter(slot[i]) \in Seq(Int) /\ Head(lines[slot[i]]) \in Int
            BY <3>2, <4>3 DEF LinesAfter
          <5> QED
            BY <1>0, <4>3, <5>1 DEF TaskTypeOK
        <4> QED
          BY <2>1, <4>1, <4>2, <4>3
    <2> QED
      BY <1>0, <1>12, <2>3, <2>4, <2>6 DEF Poll, TaskTypeOK
  <1> QED
    BY <1>3, <1>4, <1>5, <1>6, <1>7, <1>8, <1>9, <1>10, <1>11, <1>12
       DEF OwnerStep

-----------------------------------------------------------------------------
(* The lambdas that run. *)
LEMMA LoopTypes ==
    ASSUME TaskTypeOK, NEW o \in Owners
    PROVE  /\ Len(loops[o]) \in Nat
           /\ \A d \in 1 .. Len(loops[o]) :
                  loops[o][d] \in Loop /\ loops[o][d].running \in Ids \union {NoTask}
  <1>1. loops[o] \in Seq(Loop)
    BY DEF TaskTypeOK
  <1>2. \A d \in 1 .. Len(loops[o]) : loops[o][d] \in Loop
    BY <1>1, ElementOfSeq
  <1> QED
    BY <1>1, <1>2, LenProperties DEF Loop

(* A step that begins no lambda: the loops of one thread may change, but     *)
(* none of them runs what it did not run before.                            *)
LEMMA NoneBegins ==
    ASSUME TaskTypeOK, TaskTypeOK', RunInv, NEW o \in Owners,
           \A q \in Owners \ {o} : loops'[q] = loops[q],
           \A d \in 1 .. Len(loops'[o]) : loops'[o][d].running # NoTask =>
               /\ d \in 1 .. Len(loops[o])
               /\ loops'[o][d].running = loops[o][d].running,
           \A i \in Ids : state[i] = "RUNNING" => state'[i] = "RUNNING"
    PROVE  RunInv'
  <1> SUFFICES ASSUME NEW p \in Owners, NEW q \in Owners,
                      NEW d \in 1 .. Len(loops'[p]), NEW e \in 1 .. Len(loops'[q]),
                      loops'[p][d].running # NoTask
               PROVE  /\ state'[loops'[p][d].running] = "RUNNING"
                      /\ loops'[q][e].running = loops'[p][d].running => q = p /\ e = d
    BY DEF RunInv
  <1>1. /\ d \in 1 .. Len(loops[p])
        /\ loops'[p][d].running = loops[p][d].running
    OBVIOUS
  <1>2. loops'[q][e].running # NoTask =>
            /\ e \in 1 .. Len(loops[q])
            /\ loops'[q][e].running = loops[q][e].running
    OBVIOUS
  <1>3. loops[p][d].running \in Ids /\ state[loops[p][d].running] = "RUNNING"
    BY <1>1, LoopTypes DEF RunInv
  <1> QED
    BY <1>1, <1>2, <1>3 DEF RunInv

(* What runs on top of a stack, without a lambda, is changed to run none. *)
LEMMA TopStaysIdle ==
    ASSUME TaskTypeOK, TaskTypeOK', RunInv, NEW o \in Owners, loops[o] # <<>>,
           NEW l \in Loop, l.running = NoTask, SetLoop(o, l),
           \A i \in Ids : state[i] = "RUNNING" => state'[i] = "RUNNING"
    PROVE  RunInv'
  <1>1. /\ \A q \in Owners \ {o} : loops'[q] = loops[q]
        /\ Len(loops'[o]) = Len(loops[o])
        /\ loops'[o][Len(loops[o])] = l
        /\ \A d \in 1 .. Len(loops[o]) - 1 : loops'[o][d] = loops[o][d]
    BY SetLoopIs
  <1>2. Len(loops[o]) \in Nat
    BY LoopTypes
  <1>3. ASSUME NEW d \in 1 .. Len(loops'[o]), loops'[o][d].running # NoTask
        PROVE  /\ d \in 1 .. Len(loops[o])
               /\ loops'[o][d].running = loops[o][d].running
    <2>1. d # Len(loops[o])
      BY <1>1, <1>3
    <2>2. d \in 1 .. Len(loops[o]) - 1
      BY <1>1, <1>2, <2>1
    <2> QED
      BY <1>1, <1>2, <2>2
  <1> QED
    BY <1>1, <1>3, NoneBegins

(* A lambda begins that was pending, so that no loop ran it. *)
LEMMA RunLambdaRuns ==
    ASSUME AsyncTasksAssumption, TaskInv, TaskTypeOK', NEW o \in Owners,
           RunLambda(o)
    PROVE  RunInv'
  <1>0. TaskTypeOK /\ RunInv /\ loops[o] # <<>>
    BY DEF TaskInv, RunLambda, Loops
  <1> DEFINE n == Len(loops[o])
  <1>1. PICK i \in Ids :
           /\ state[i] = "SPAWN_PENDING" /\ state' = [state EXCEPT ![i] = "RUNNING"]
           /\ SetLoop(o, [Last(loops[o]) EXCEPT !.at = After(i), !.running = i])
    BY DEF RunLambda
  <1> DEFINE m == [Last(loops[o]) EXCEPT !.at = After(i), !.running = i]
  <1>2. m \in Loop /\ m.running = i /\ n \in Nat \ {0}
    BY <1>0, TopLoop, LoopGoesOn DEF Loop
  <1> HIDE DEF m
  <1>3. SetLoop(o, m)
    BY <1>1 DEF m
  <1>4. /\ \A q \in Owners \ {o} : loops'[q] = loops[q]
        /\ Len(loops'[o]) = n /\ loops'[o][n] = m
        /\ \A d \in 1 .. n - 1 : loops'[o][d] = loops[o][d]
    BY <1>0, <1>2, <1>3, SetLoopIs
  <1>5. ASSUME NEW q \in Owners, NEW e \in 1 .. Len(loops'[q]), q # o \/ e # n
        PROVE  /\ e \in 1 .. Len(loops[q])
               /\ loops'[q][e] = loops[q][e]
               /\ loops'[q][e].running # NoTask =>
                      /\ state'[loops'[q][e].running] = "RUNNING"
                      /\ loops'[q][e].running # i
    <2>1. e \in 1 .. Len(loops[q]) /\ loops'[q][e] = loops[q][e]
      <3>1. CASE q # o
        BY <1>4, <3>1
      <3>2. CASE q = o
        <4>1. e \in 1 .. n - 1
          BY <1>2, <1>4, <1>5, <3>2
        <4> QED
          BY <1>2, <1>4, <3>2, <4>1
      <3> QED
        BY <3>1, <3>2
    <2>2. loops[q][e].running \in Ids \union {NoTask}
      BY <1>0, <2>1, LoopTypes
    <2>3. loops[q][e].running # NoTask => state[loops[q][e].running] = "RUNNING"
      BY <1>0, <2>1 DEF RunInv
    <2> QED
      BY <1>0, <1>1, <2>1, <2>2, <2>3 DEF TaskTypeOK
  <1> SUFFICES ASSUME NEW p \in Owners, NEW q \in Owners,
                      NEW d \in 1 .. Len(loops'[p]), NEW e \in 1 .. Len(loops'[q]),
                      loops'[p][d].running # NoTask
               PROVE  /\ state'[loops'[p][d].running] = "RUNNING"
                      /\ loops'[q][e].running = loops'[p][d].running => q = p /\ e = d
    BY DEF RunInv
  <1>6. CASE p = o /\ d = n
    <2>1. loops'[p][d].running = i /\ state'[i] = "RUNNING"
      BY <1>0, <1>1, <1>2, <1>4, <1>6 DEF TaskTypeOK
    <2>2. i # NoTask
      BY DEF Ids, NoTask, AsyncTasksAssumption
    <2> QED
      BY <1>5, <1>6, <2>1, <2>2
  <1>7. CASE ~ (p = o /\ d = n) /\ q = o /\ e = n
    BY <1>2, <1>4, <1>5, <1>7
  <1>8. CASE ~ (p = o /\ d = n) /\ ~ (q = o /\ e = n)
    BY <1>0, <1>5, <1>8, SMTT(20) DEF RunInv
  <1> QED
    BY <1>6, <1>7, <1>8

(* A lambda returns: its loop alone ran it. *)
LEMMA LambdaReturnsRuns ==
    ASSUME AsyncTasksAssumption, TaskInv, TaskTypeOK', NEW o \in Owners,
           LambdaReturns(o)
    PROVE  RunInv'
  <1>0. TaskTypeOK /\ RunInv /\ loops[o] # <<>>
    BY DEF TaskInv, LambdaReturns
  <1> DEFINE n == Len(loops[o])
             i == loops[o][n].running
             m == [Last(loops[o]) EXCEPT !.running = NoTask, !.progressed = TRUE]
  <1>1. Last(loops[o]) \in Loop /\ n \in Nat \ {0} /\ Last(loops[o]) = loops[o][n]
    BY <1>0, TopLoop
  <1>2. /\ i # NoTask /\ state' = [state EXCEPT ![i] = "DONE"] /\ SetLoop(o, m)
    BY <1>0, <1>1 DEF LambdaReturns, Runs
  <1>3. m \in Loop /\ m.running = NoTask
    <2>1. 0 \in Ids
      BY DEF Ids, AsyncTasksAssumption
    <2>2. m \in Loop
      BY <1>1, <2>1, LoopGoesOn
    <2> QED
      BY <1>1, <2>2 DEF Loop
  <1> HIDE DEF m
  <1>4. /\ \A q \in Owners \ {o} : loops'[q] = loops[q]
        /\ Len(loops'[o]) = n /\ loops'[o][n] = m
        /\ \A d \in 1 .. n - 1 : loops'[o][d] = loops[o][d]
    BY <1>0, <1>2, <1>3, SetLoopIs
  <1>5. ASSUME NEW q \in Owners, NEW e \in 1 .. Len(loops'[q]),
               loops'[q][e].running # NoTask
        PROVE  /\ e \in 1 .. Len(loops[q]) /\ (q # o \/ e # n)
               /\ loops'[q][e] = loops[q][e]
    <2>1. CASE q # o
      BY <1>4, <2>1
    <2>2. CASE q = o
      <3>1. e # n
        BY <1>3, <1>4, <1>5, <2>2
      <3>2. e \in 1 .. n - 1
        BY <1>1, <1>4, <2>2, <3>1
      <3> QED
        BY <1>1, <1>4, <2>2, <3>1, <3>2
    <2> QED
      BY <2>1, <2>2
  <1> SUFFICES ASSUME NEW p \in Owners, NEW q \in Owners,
                      NEW d \in 1 .. Len(loops'[p]), NEW e \in 1 .. Len(loops'[q]),
                      loops'[p][d].running # NoTask
               PROVE  /\ state'[loops'[p][d].running] = "RUNNING"
                      /\ loops'[q][e].running = loops'[p][d].running => q = p /\ e = d
    BY DEF RunInv
  <1>6. /\ d \in 1 .. Len(loops[p]) /\ (p # o \/ d # n)
        /\ loops'[p][d] = loops[p][d]
    BY <1>5
  <1>7. n \in 1 .. Len(loops[o])
    BY <1>1
  <1>8. loops[p][d].running # i /\ state[loops[p][d].running] = "RUNNING"
    BY <1>0, <1>2, <1>6, <1>7 DEF RunInv
  <1>9. state'[loops'[p][d].running] = "RUNNING"
    <2>1. loops[p][d].running \in Ids
      BY <1>0, <1>6, LoopTypes
    <2> QED
      BY <1>0, <1>2, <1>6, <1>8, <2>1 DEF TaskTypeOK
  <1>10. loops'[q][e].running = loops'[p][d].running => q = p /\ e = d
    BY <1>0, <1>5, <1>6 DEF RunInv
  <1> QED
    BY <1>9, <1>10

LEMMA RunNext ==
    ASSUME AsyncTasksAssumption, TaskInv, TaskTypeOK', [TaskNext]_taskVars
    PROVE  RunInv'
  <1>0. TaskTypeOK /\ RunInv
    BY DEF TaskInv
  <1>1. CASE UNCHANGED taskVars
    BY <1>0, <1>1 DEF taskVars, RunInv
  <1>2. ASSUME NEW s \in Slots, Answer(s) \/ Die(s) PROVE RunInv'
    BY <1>0, <1>2 DEF Answer, Die, pool, RunInv
  <1> SUFFICES ASSUME NEW o \in Owners, Begin(o) \/ OwnerStep(o) \/ Rejoin(o)
               PROVE  RunInv'
    BY <1>1, <1>2 DEF TaskNext
  <1>3. CASE UNCHANGED loops /\ \A i \in Ids : state[i] = "RUNNING" =>
                                                   state'[i] = "RUNNING"
    BY <1>0, <1>3, NoneBegins, Zenon
  <1>4. CASE \/ Begin(o) \/ End(o) \/ Rejoin(o) \/ Spawn(o) \/ LangCallAsync(o)
             \/ LangSpawn(o) \/ LangClose(o)
    <2>1. UNCHANGED loops
      BY <1>4
         DEF Begin, End, Rejoin, Spawn, LangCallAsync, LangSpawn, LangClose
    <2>2. \A i \in Ids : state[i] = "RUNNING" => state'[i] = "RUNNING"
      BY <1>0, <1>4
         DEF Begin, End, Rejoin, Spawn, LangCallAsync, LangSpawn, LangClose, pool,
             NewTask, IsFirst, FreeIds, TaskTypeOK
    <2> QED
      BY <1>3, <2>1, <2>2
  <1> DEFINE l == Last(loops[o])
             n == Len(loops[o])
  <1>5. CASE Await(o)
    <2>1. PICK T \in SUBSET Ids :
             loops' = [loops EXCEPT ![o] =
                 Append(@, [targets |-> T, at |-> Head0, progressed |-> FALSE,
                            running |-> NoTask])]
      BY <1>5 DEF Await, Owned
    <2> DEFINE m == [targets |-> T, at |-> Head0, progressed |-> FALSE,
                     running |-> NoTask]
    <2>2. /\ m \in Loop /\ m.running = NoTask
      BY DEF Loop, Head0, AsyncTasksAssumption
    <2> HIDE DEF m
    <2>3. loops' = [loops EXCEPT ![o] = Append(@, m)]
      BY <2>1 DEF m
    <2>4. /\ loops'[o] = Append(loops[o], m)
          /\ \A q \in Owners \ {o} : loops'[q] = loops[q]
      BY <1>0, <2>3 DEF TaskTypeOK
    <2>5. /\ n \in Nat /\ Len(loops'[o]) = n + 1 /\ loops'[o][n + 1] = m
          /\ \A d \in 1 .. n : loops'[o][d] = loops[o][d]
      BY <1>0, <2>2, <2>4, AppendProperties, LenProperties DEF TaskTypeOK
    <2>6. ASSUME NEW d \in 1 .. Len(loops'[o]), loops'[o][d].running # NoTask
          PROVE  d \in 1 .. n /\ loops'[o][d].running = loops[o][d].running
      <3>1. d # n + 1
        BY <2>2, <2>5, <2>6
      <3>2. d \in 1 .. n
        BY <2>5, <3>1
      <3> QED
        BY <2>5, <3>2
    <2>7. UNCHANGED state
      BY <1>5 DEF Await, pool
    <2> QED
      BY <1>0, <2>4, <2>6, <2>7, NoneBegins
  <1>6. CASE AwaitReturns(o)
    <2>1. loops[o] \in Seq(Loop) /\ loops[o] # <<>>
          /\ loops' = [loops EXCEPT ![o] = Front(@)]
      BY <1>0, <1>6 DEF AwaitReturns, Loops, TaskTypeOK
    <2>2. /\ loops'[o] = Front(loops[o])
          /\ \A q \in Owners \ {o} : loops'[q] = loops[q]
      BY <1>0, <2>1 DEF TaskTypeOK
    <2>3. /\ n \in Nat \ {0} /\ Len(loops'[o]) = n - 1
          /\ \A d \in 1 .. n - 1 : loops'[o][d] = loops[o][d]
      BY <2>1, <2>2, TopOf
    <2>4. \A i \in Ids : state[i] = "RUNNING" => state'[i] = "RUNNING"
      BY <1>0, <1>6 DEF AwaitReturns, AllDone, TaskTypeOK
    <2>5. \A d \in 1 .. Len(loops'[o]) : d \in 1 .. n /\ loops'[o][d] = loops[o][d]
      BY <2>3
    <2> QED
      BY <1>0, <2>2, <2>4, <2>5, NoneBegins
  <1>7. CASE StartPass(o) \/ PassEnds(o) \/ WaitParked(o)
    <2>1. l \in Loop /\ loops[o] # <<>> /\ l.running = NoTask
      BY <1>0, <1>7, TopLoop DEF StartPass, PassEnds, WaitParked, PassOver, Loops
    <2> DEFINE m1 == [l EXCEPT !.at = 0, !.progressed = FALSE]
               m2 == [l EXCEPT !.at = Head0]
    <2>2. 0 \in Ids
      BY DEF Ids, AsyncTasksAssumption
    <2>3. m1 \in Loop /\ m1.running = NoTask /\ m2 \in Loop /\ m2.running = NoTask
      <3>1. m1 \in Loop /\ m2 \in Loop
        BY <2>1, <2>2, LoopGoesOn
      <3> QED
        BY <2>1, <3>1 DEF Loop
    <2>4. UNCHANGED state
      BY <1>7 DEF StartPass, PassEnds, WaitParked, pool
    <2>5. SetLoop(o, m1) \/ SetLoop(o, m2)
      BY <1>7 DEF StartPass, PassEnds, WaitParked
    <2> HIDE DEF m1, m2, l
    <2> QED
      BY <1>0, <2>1, <2>3, <2>4, <2>5, TopStaysIdle
  <1>8. CASE Poll(o)
    <2>1. l \in Loop /\ loops[o] # <<>> /\ l.running = NoTask
      BY <1>0, <1>8, TopLoop DEF Poll, Loops
    <2>2. PICK i \in Ids :
             /\ state[i] = "IO_WAIT"
             /\ state' = [state EXCEPT ![i] = "DONE"] \/ UNCHANGED state
             /\ \/ SetLoop(o, [l EXCEPT !.at = After(i)])
                \/ SetLoop(o, [[l EXCEPT !.at = After(i)] EXCEPT !.progressed = TRUE])
      BY <1>8 DEF Poll
    <2> DEFINE m1 == [l EXCEPT !.at = After(i)]
               m2 == [[l EXCEPT !.at = After(i)] EXCEPT !.progressed = TRUE]
    <2>3. m1 \in Loop /\ m1.running = NoTask /\ m2 \in Loop /\ m2.running = NoTask
      <3>1. m1 \in Loop /\ m2 \in Loop
        BY <2>1, LoopGoesOn
      <3> QED
        BY <2>1, <3>1 DEF Loop
    <2>4. \A j \in Ids : state[j] = "RUNNING" => state'[j] = "RUNNING"
      BY <1>0, <2>2 DEF TaskTypeOK
    <2>5. SetLoop(o, m1) \/ SetLoop(o, m2)
      BY <2>2
    <2> HIDE DEF m1, m2, l
    <2> QED
      BY <1>0, <2>1, <2>3, <2>4, <2>5, TopStaysIdle
  <1> QED
    BY <1>4, <1>5, <1>6, <1>7, <1>8, RunLambdaRuns, LambdaReturnsRuns DEF OwnerStep

-----------------------------------------------------------------------------
(* The children.  A step that changes no child and who waits for none. *)
LEMMA NobodyCalls ==
    ASSUME ChildInv, UNCHANGED procs,
           \A i \in Ids : state'[i] = "IO_WAIT" <=> state[i] = "IO_WAIT",
           \A i \in Ids : state[i] = "IO_WAIT" =>
                              slot'[i] = slot[i] /\ call'[i] = call[i]
    PROVE  ChildInv'
  <1>1. \A s \in Slots : Waiting(s)' = Waiting(s)
    BY DEF Waiting
  <1>2. \A s \in Slots : \A i \in Waiting(s) : Outstanding(s, i)' <=> Outstanding(s, i)
    BY DEF Waiting, Outstanding, procs
  <1> QED
    BY <1>1, <1>2 DEF ChildInv, procs

LEMMA LangCallAsyncCalls ==
    ASSUME AsyncTasksAssumption, OneCall, TaskInv, NEW o \in Owners,
           LangCallAsync(o)
    PROVE  ChildInv'
  <1>0. TaskTypeOK /\ ChildInv
    BY DEF TaskInv
  <1>1. PICK s \in Slots, i \in Ids :
           /\ user[s] = o /\ Waiting(s) = {} /\ NewTask(o, i, "IO_WAIT", s)
           /\ asked' = IF child[s] = "open"
                       THEN [asked EXCEPT ![s] = Append(@, left[o])] ELSE asked
    BY DEF LangCallAsync, MayCall
  <1>2. UNCHANGED <<child, user, lines>>
    BY DEF LangCallAsync
  <1>3. /\ state[i] = "FREE" /\ state'[i] = "IO_WAIT" /\ slot'[i] = s
        /\ \A j \in Ids \ {i} : /\ state'[j] = state[j] /\ slot'[j] = slot[j]
                                /\ call'[j] = call[j]
        /\ call'[i] = left[o]
    <2>1. "IO_WAIT" \in TaskStates /\ s # NoSlot /\ s \in Slots \union {NoSlot}
      BY DEF TaskStates, NoSlot, AsyncTasksAssumption
    <2> QED
      BY <1>0, <1>1, <2>1, NewTaskIs
  <1>4. /\ Waiting(s)' = {i}
        /\ \A r \in Slots \ {s} : Waiting(r)' = Waiting(r) /\ i \notin Waiting(r)
    BY <1>1, <1>3 DEF Waiting
  <1>5. /\ child[s] # "none" /\ asked[s] = <<>> /\ lines[s] = <<>>
    BY <1>0, <1>1 DEF ChildInv, AsyncTasksAssumption
  <1>6. Outstanding(s, i)'
    <2>1. Append(<<>>, left[o]) = <<left[o]>>
      OBVIOUS
    <2> QED
      BY <1>0, <1>1, <1>2, <1>3, <1>5, <2>1 DEF Outstanding, TaskTypeOK
  <1>7. ASSUME NEW r \in Slots \ {s}, NEW j \in Waiting(r)
        PROVE  Outstanding(r, j)' <=> Outstanding(r, j)
    <2>1. j \in Ids \ {i} /\ asked'[r] = asked[r]
      BY <1>0, <1>1, <1>4 DEF Waiting, TaskTypeOK
    <2> QED
      BY <1>2, <1>3, <2>1 DEF Outstanding
  <1>8. \A r \in Slots \ {s} : asked'[r] = asked[r]
    BY <1>0, <1>1 DEF TaskTypeOK
  <1> QED
    BY <1>0, <1>2, <1>3, <1>4, <1>5, <1>6, <1>7, <1>8 DEF ChildInv

(* A child that is closed or new owes nothing. *)
LEMMA ChildrenComeAndGo ==
    ASSUME AsyncTasksAssumption, TaskInv, NEW o \in Owners,
           LangSpawn(o) \/ LangClose(o)
    PROVE  ChildInv'
  <1>0. TaskTypeOK /\ ChildInv
    BY DEF TaskInv
  <1>1. PICK s \in Slots :
           /\ Waiting(s) = {}
           /\ \A r \in Slots \ {s} :
                 /\ child'[r] = child[r] /\ user'[r] = user[r]
                 /\ asked'[r] = asked[r] /\ lines'[r] = lines[r]
           /\ user'[s] # NoOwner => child'[s] # "none"
           /\ asked'[s] = <<>> /\ lines'[s] = <<>>
    <2>1. CASE LangSpawn(o)
      <3>1. PICK s \in Slots : /\ child[s] = "none"
                               /\ child' = [child EXCEPT ![s] = "open"]
                               /\ user' = [user EXCEPT ![s] = o]
        BY <2>1 DEF LangSpawn, IsFirst
      <3>2. Waiting(s) = {}
        BY <1>0, <3>1 DEF ChildInv
      <3> QED
        BY <1>0, <2>1, <3>1, <3>2 DEF LangSpawn, ChildInv, TaskTypeOK
    <2>2. CASE LangClose(o)
      BY <1>0, <2>2 DEF LangClose, TaskTypeOK
    <2> QED
      BY <2>1, <2>2
  <1>2. UNCHANGED <<state, slot, call>>
    BY DEF LangSpawn, LangClose, pool
  <1>3. \A r \in Slots : Waiting(r)' = Waiting(r)
    BY <1>2 DEF Waiting
  <1>4. \A r \in Slots \ {s} : \A i \in Waiting(r) :
            Outstanding(r, i)' <=> Outstanding(r, i)
    BY <1>1, <1>2 DEF Outstanding
  <1> QED
    BY <1>0, <1>1, <1>2, <1>3, <1>4 DEF ChildInv

(* A child answers, or it ends with what it had been asked. *)
LEMMA ChildrenStep ==
    ASSUME AsyncTasksAssumption, TaskInv, NEW s \in Slots, Answer(s) \/ Die(s)
    PROVE  ChildInv'
  <1>0. TaskTypeOK /\ ChildInv
    BY DEF TaskInv
  <1>1. UNCHANGED <<state, slot, call, user>>
    BY DEF Answer, Die, pool
  <1>2. \A r \in Slots : Waiting(r)' = Waiting(r)
    BY <1>1 DEF Waiting
  <1>3. /\ \A r \in Slots \ {s} : /\ child'[r] = child[r] /\ asked'[r] = asked[r]
                                  /\ lines'[r] = lines[r]
        /\ child[s] # "none" /\ child'[s] # "none"
    BY <1>0 DEF Answer, Die, TaskTypeOK
  <1>4. Waiting(s) = {} => asked'[s] = <<>> /\ lines'[s] = <<>>
    BY <1>0 DEF Answer, Die, ChildInv, TaskTypeOK
  <1>5. ASSUME NEW i \in Waiting(s) PROVE Outstanding(s, i)'
    <2>1. Outstanding(s, i)
      BY <1>0, <1>5 DEF ChildInv
    <2>2. CASE Answer(s)
      <3>1. asked[s] = <<call[i]>> /\ lines[s] = <<>>
        BY <2>1, <2>2 DEF Answer, Outstanding
      <3>2. Head(<<call[i]>>) = call[i] /\ Tail(<<call[i]>>) = <<>>
            /\ Append(<<>>, call[i]) = <<call[i]>>
        OBVIOUS
      <3>3. asked'[s] = Tail(asked[s]) /\ lines'[s] = Append(lines[s], Head(asked[s]))
        BY <1>0, <2>2 DEF Answer, TaskTypeOK
      <3> QED
        BY <1>1, <3>1, <3>2, <3>3 DEF Outstanding
    <2>3. CASE Die(s)
      BY <1>0, <1>1, <2>1, <2>3 DEF Die, Outstanding, TaskTypeOK
    <2> QED
      BY <2>2, <2>3
  <1>6. \A r \in Slots \ {s} : \A i \in Waiting(r) :
            Outstanding(r, i)' <=> Outstanding(r, i)
    BY <1>1, <1>3 DEF Outstanding
  <1> QED
    BY <1>0, <1>1, <1>2, <1>3, <1>4, <1>5, <1>6 DEF ChildInv

(* A call that waits takes the one line its child has: its own answer, or "" *)
(* from a child that is gone.                                                *)
LEMMA PollTakesItsOwn ==
    ASSUME AsyncTasksAssumption, TaskInv, NEW o \in Owners, Poll(o)
    PROVE  /\ ChildInv'
           /\ \A i \in Ids : state[i] = "IO_WAIT" /\ state'[i] = "DONE" =>
                  \/ result'[i] = call[i]
                  \/ result'[i] = Empty /\ child[slot[i]] # "open"
  <1>0. TaskTypeOK /\ ChildInv
    BY DEF TaskInv
  <1>1. PICK i \in Ids :
           /\ state[i] = "IO_WAIT"
           /\ \/ /\ lines[slot[i]] # <<>>
                 /\ lines' = [lines EXCEPT ![slot[i]] = LinesAfter(slot[i])]
                 /\ result' = [result EXCEPT ![i] = Head(lines[slot[i]])]
                 /\ state' = [state EXCEPT ![i] = "DONE"]
              \/ /\ NothingMore(slot[i])
                 /\ result' = [result EXCEPT ![i] = Empty]
                 /\ state' = [state EXCEPT ![i] = "DONE"]
                 /\ UNCHANGED lines
              \/ UNCHANGED <<lines, result, state>>
    BY DEF Poll
  <1> DEFINE s == slot[i]
  <1>2. UNCHANGED <<slot, call, child, user, asked>>
    BY DEF Poll
  <1>3. s \in Slots /\ i \in Waiting(s) /\ Waiting(s) = {i} /\ Outstanding(s, i)
    BY <1>0, <1>1 DEF ChildInv, Waiting
  <1>4. CASE UNCHANGED <<lines, result, state>>
    <2>1. ChildInv'
      BY <1>0, <1>2, <1>4, NobodyCalls DEF procs
    <2> QED
      BY <2>1, <1>4 DEF TaskStates
  <1>5. CASE state' = [state EXCEPT ![i] = "DONE"]
    <2>1. \A j \in Ids \ {i} : state'[j] = state[j]
      BY <1>0, <1>5 DEF TaskTypeOK
    <2>2. state'[i] = "DONE"
      BY <1>0, <1>5 DEF TaskTypeOK
    <2>3. Waiting(s)' = {}
      BY <1>2, <1>3, <2>1, <2>2 DEF Waiting
    <2>4. \A r \in Slots \ {s} : Waiting(r)' = Waiting(r)
      BY <1>2, <2>1, <2>2 DEF Waiting
    <2>5. /\ lines'[s] = <<>> /\ asked[s] = <<>>
          /\ result'[i] = call[i] \/ (result'[i] = Empty /\ child[s] # "open")
          /\ \A r \in Slots \ {s} : lines'[r] = lines[r]
      <3>1. CASE /\ lines[s] # <<>>
                 /\ lines' = [lines EXCEPT ![s] = LinesAfter(s)]
                 /\ result' = [result EXCEPT ![i] = Head(lines[s])]
        <4>1. asked[s] = <<>> /\ lines[s] = <<call[i]>>
          BY <1>3, <3>1 DEF Outstanding
        <4>2. Head(<<call[i]>>) = call[i] /\ Tail(<<call[i]>>) = <<>>
          OBVIOUS
        <4>3. lines'[s] = Tail(lines[s]) /\ result'[i] = Head(lines[s])
              /\ \A r \in Slots \ {s} : lines'[r] = lines[r]
          BY <1>0, <1>3, <3>1 DEF LinesAfter, TaskTypeOK
        <4> QED
          BY <4>1, <4>2, <4>3
      <3>2. CASE /\ NothingMore(s) /\ UNCHANGED lines
                 /\ result' = [result EXCEPT ![i] = Empty]
        <4>1. lines[s] = <<>> /\ child[s] # "open"
          BY <3>2 DEF NothingMore
        <4>2. <<call[i]>> # <<>>
          OBVIOUS
        <4>3. asked[s] = <<>>
          BY <1>3, <4>1, <4>2 DEF Outstanding
        <4> QED
          BY <1>0, <3>2, <4>1, <4>3 DEF TaskTypeOK
      <3>3. state' # state
        BY <1>1, <2>2
      <3> QED
        BY <1>1, <3>1, <3>2, <3>3
    <2>6. \A r \in Slots \ {s} : \A j \in Waiting(r) :
              Outstanding(r, j)' <=> Outstanding(r, j)
      BY <1>2, <2>5 DEF Outstanding
    <2>7. ChildInv'
      <3>1. \A j \in Ids : state'[j] = "IO_WAIT" => slot'[j] \in Slots
        BY <1>0, <1>2, <2>1, <2>2 DEF ChildInv
      <3>2. ASSUME NEW r \in Slots
            PROVE  /\ user'[r] # NoOwner => child'[r] # "none"
                   /\ Waiting(r)' = {} => asked'[r] = <<>> /\ lines'[r] = <<>>
                   /\ \A j \in Waiting(r)' : /\ Waiting(r)' = {j}
                                             /\ child'[r] # "none"
                                             /\ Outstanding(r, j)'
        <4>1. CASE r = s
          BY <1>0, <1>2, <2>3, <2>5, <4>1 DEF ChildInv
        <4>2. CASE r # s
          BY <1>0, <1>2, <2>4, <2>5, <2>6, <4>2 DEF ChildInv
        <4> QED
          BY <4>1, <4>2
      <3> QED
        BY <3>1, <3>2 DEF ChildInv
    <2> QED
      BY <2>1, <2>5, <2>7
  <1> QED
    BY <1>1, <1>4, <1>5

(* No other step touches a call that waits. *)
LEMMA NobodyElsePolls ==
    ASSUME AsyncTasksAssumption, TaskInv, NEW o \in Owners,
           \/ Begin(o) \/ End(o) \/ Rejoin(o) \/ Spawn(o) \/ Await(o)
           \/ AwaitReturns(o) \/ StartPass(o) \/ RunLambda(o) \/ LambdaReturns(o)
           \/ PassEnds(o) \/ WaitParked(o)
    PROVE  /\ UNCHANGED procs
           /\ \A i \in Ids : state'[i] = "IO_WAIT" <=> state[i] = "IO_WAIT"
           /\ \A i \in Ids : state[i] = "IO_WAIT" =>
                                 slot'[i] = slot[i] /\ call'[i] = call[i]
  <1>0. TaskTypeOK /\ RunInv
    BY DEF TaskInv
  <1>1. CASE \/ Begin(o) \/ End(o) \/ Rejoin(o) \/ Await(o) \/ StartPass(o)
             \/ PassEnds(o) \/ WaitParked(o)
    BY <1>1 DEF Begin, End, Rejoin, Await, StartPass, PassEnds, WaitParked, pool
  <1>2. CASE Spawn(o)
    <2>1. PICK i \in Ids, st \in TaskStates, s \in Slots \union {NoSlot} :
             NewTask(o, i, st, s) /\ st = "SPAWN_PENDING"
      BY <1>2 DEF Spawn, TaskStates
    <2>2. /\ state[i] = "FREE" /\ state'[i] = st
          /\ \A j \in Ids \ {i} : /\ state'[j] = state[j] /\ slot'[j] = slot[j]
                                  /\ call'[j] = call[j]
      BY <1>0, <2>1, NewTaskIs
    <2> QED
      BY <1>2, <2>1, <2>2 DEF Spawn
  <1>3. CASE AwaitReturns(o)
    BY <1>0, <1>3 DEF AwaitReturns, AllDone, TaskTypeOK
  <1>4. CASE RunLambda(o)
    BY <1>0, <1>4 DEF RunLambda, TaskTypeOK
  <1>5. CASE LambdaReturns(o)
    <2>1. loops[o] # <<>> /\ Last(loops[o]).running # NoTask
      BY <1>5 DEF LambdaReturns, Runs
    <2>2. state[Last(loops[o]).running] = "RUNNING"
      <3>1. /\ Last(loops[o]) = loops[o][Len(loops[o])]
            /\ Len(loops[o]) \in 1 .. Len(loops[o])
        BY <1>0, <2>1, TopLoop
      <3> QED
        BY <1>0, <2>1, <3>1 DEF RunInv
    <2> QED
      BY <1>0, <1>5, <2>2 DEF LambdaReturns, TaskTypeOK
  <1> QED
    BY <1>1, <1>2, <1>3, <1>4, <1>5

(* What a step does to a call that waits. *)
Answered ==
    \A i \in Ids : state[i] = "IO_WAIT" /\ state'[i] = "DONE" =>
        \/ result'[i] = call[i]
        \/ result'[i] = Empty /\ child[slot[i]] # "open"

LEMMA ChildNext ==
    ASSUME AsyncTasksAssumption, OneCall, TaskInv, [TaskNext]_taskVars
    PROVE  ChildInv' /\ Answered
  <1>0. TaskTypeOK /\ ChildInv
    BY DEF TaskInv
  <1>1. CASE UNCHANGED taskVars
    <2>1. ChildInv'
      BY <1>0, <1>1, NobodyCalls DEF taskVars, procs
    <2> QED
      BY <1>1, <2>1 DEF taskVars, Answered
  <1>2. ASSUME NEW s \in Slots, Answer(s) \/ Die(s) PROVE ChildInv' /\ Answered
    BY <1>2, ChildrenStep DEF Answer, Die, pool, Answered
  <1> SUFFICES ASSUME NEW o \in Owners, Begin(o) \/ OwnerStep(o) \/ Rejoin(o)
               PROVE  ChildInv' /\ Answered
    BY <1>1, <1>2 DEF TaskNext
  <1>3. CASE Poll(o)
    BY <1>3, PollTakesItsOwn DEF Answered
  <1>4. CASE LangCallAsync(o)
    <2>1. ChildInv'
      BY <1>4, LangCallAsyncCalls
    <2>2. \A i \in Ids : state'[i] = "DONE" => state[i] = "DONE"
      BY <1>0, <1>4 DEF LangCallAsync, NewTask, TaskTypeOK
    <2> QED
      BY <2>1, <2>2 DEF Answered
  <1>5. CASE LangSpawn(o) \/ LangClose(o)
    BY <1>5, ChildrenComeAndGo DEF LangSpawn, LangClose, pool, Answered
  <1>6. CASE \/ Begin(o) \/ End(o) \/ Rejoin(o) \/ Spawn(o) \/ Await(o)
             \/ AwaitReturns(o) \/ StartPass(o) \/ RunLambda(o)
             \/ LambdaReturns(o) \/ PassEnds(o) \/ WaitParked(o)
    <2>1. /\ UNCHANGED procs
          /\ \A i \in Ids : state'[i] = "IO_WAIT" <=> state[i] = "IO_WAIT"
          /\ \A i \in Ids : state[i] = "IO_WAIT" =>
                                slot'[i] = slot[i] /\ call'[i] = call[i]
      BY <1>6, NobodyElsePolls
    <2> QED
      BY <1>0, <2>1, NobodyCalls DEF Answered
  <1> QED
    BY <1>3, <1>4, <1>5, <1>6 DEF OwnerStep

(* The invariant of the tasks and their children: a lambda runs in one loop   *)
(* only, and a child has of the one call that waits for it its request or its *)
(* answer, and nothing of an earlier one.                                    *)
THEOREM TaskInvariant ==
    ASSUME AsyncTasksAssumption, OneCall PROVE TaskSpec => []TaskInv
  <1>1. TaskInit => TaskInv
    BY TaskInitInv
  <1>2. TaskInv /\ [TaskNext]_taskVars => TaskInv'
    BY TaskTypeNext, RunNext, ChildNext DEF TaskInv
  <1> QED
    BY <1>1, <1>2, PTL DEF TaskSpec

(* A call gets the answer to its own request, or "" once the child is gone    *)
(* ([ASY-2]), for every number of requests, task slots and children, with the *)
(* overlap and with awaits across tasks, in scripts that send a child one     *)
(* request at a time.                                                        *)
THEOREM AnswersAreTheirOwn ==
    ASSUME AsyncTasksAssumption, OneCall PROVE TaskSpec => ReplyIsItsOwn
  <1>1. TaskInv /\ [TaskNext]_taskVars => [Answered]_taskVars
    BY ChildNext
  <1>2. ReplyIsItsOwn <=> [][Answered]_taskVars
    BY DEF ReplyIsItsOwn, Answered
  <1> QED
    BY <1>1, <1>2, TaskInvariant, PTL DEF TaskSpec
=============================================================================
