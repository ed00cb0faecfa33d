-------------------------- MODULE ScriptStoreProofs --------------------------
(***************************************************************************)
(* Proofs about ScriptStore, for every set of calls, ids and codes: what   *)
(* is told of a script agrees with the map, and a call that executes code  *)
(* is a stream as the runner's is.                                         *)
(***************************************************************************)
EXTENDS ScriptStore, TLAPS

-----------------------------------------------------------------------------
(* Lemmas about one call's step *)

\* Where a call stands and what it tells, when one call moves to q.
LEMMA OneMoves ==
  ASSUME TypeOK, NEW c \in Calls, NEW q \in Request, req' = [req EXCEPT ![c] = q]
  PROVE  /\ req' \in [Calls -> Request]
         /\ req'[c] = q
         /\ \A d \in Calls \ {c} : req'[d] = req[d]
         /\ \A d \in Calls \ {c} : \A id \in ScriptIds : Removed(d, id)' <=> Removed(d, id)
BY DEF TypeOK, Removed, At, Answered

\* A step that neither touches the map nor changes what a call knows keeps all
\* that relates calls to the map and to each other.
LEMMA KnowsTheSame ==
  ASSUME IInv, NEW c \in Calls, NEW q \in Request,
         req' = [req EXCEPT ![c] = q],
         UNCHANGED <<scripts, used>>,
         q.method = req[c].method, q.id = req[c].id, q.code = req[c].code,
         q.listed = req[c].listed, q.stored = req[c].stored, q.deleted = req[c].deleted,
         \A id \in ScriptIds : Removed(c, id)' <=> Removed(c, id),
         q.answer = "not_found" => req[c].answer = "not_found",
         q.method = "list_scripts" /\ q.pc \in {"tell", "done"} => req[c].pc \in {"tell", "done"}
  PROVE  /\ UsedIds' /\ Accounted' /\ RemovedIsGone' /\ DeletedWasRemoved' /\ CodeAsStored'
         /\ DeletedOnce' /\ FoundInTime' /\ RunsStored'
<1> USE DEF IInv
<1>1. /\ req' \in [Calls -> Request]
      /\ req'[c] = q
      /\ \A d \in Calls \ {c} : req'[d] = req[d]
  BY OneMoves
<1>2. \A d \in Calls : \A id \in ScriptIds : Removed(d, id)' <=> Removed(d, id)
  BY OneMoves
<1>3. \A d \in Calls :
        /\ req'[d].method = req[d].method /\ req'[d].id = req[d].id /\ req'[d].code = req[d].code
        /\ req'[d].listed = req[d].listed /\ req'[d].stored = req[d].stored
        /\ req'[d].deleted = req[d].deleted
  BY <1>1
<1>4. Ids' = Ids /\ Ids \subseteq ScriptIds
  BY DEF Ids, TypeOK, Stored
<1>5. \A d \in Calls : /\ req[d].listed \subseteq ScriptIds /\ req[d].stored \subseteq ScriptIds
                       /\ req[d].deleted \subseteq ScriptIds
  BY DEF TypeOK, Request
<1>6. UsedIds'
  BY <1>3, <1>4 DEF UsedIds
<1>7. Accounted' /\ RemovedIsGone'
  BY <1>2, <1>4 DEF Accounted, RemovedIsGone, TypeOK
<1>8. DeletedWasRemoved'
  BY <1>2, <1>3, <1>5 DEF DeletedWasRemoved
<1>9. CodeAsStored' /\ RunsStored'
  BY <1>3 DEF CodeAsStored, RunsStored
<1>10. DeletedOnce'
  BY <1>2 DEF DeletedOnce
<1>11. FoundInTime'
  BY <1>1, <1>2, <1>3, <1>5 DEF FoundInTime, Answered, At
<1>. QED
  BY <1>6, <1>7, <1>8, <1>9, <1>10, <1>11

-----------------------------------------------------------------------------
(* The invariant *)

\* Nothing is stored and no call has begun.
LEMMA InitHolds == Init => IInv
<1>. SUFFICES ASSUME Init PROVE IInv
  OBVIOUS
<1> USE DEF Init, Runner!Init
<1>1. TypeOK
  BY DEF TypeOK, IdleRequest, Request, Methods, Answers, At
<1>2. Shape /\ RunnerShape
  BY DEF Shape, RunnerShape, IdleRequest, At, Answered
<1>3. UsedIds /\ Accounted /\ RemovedIsGone /\ DeletedWasRemoved /\ CodeAsStored
  BY DEF UsedIds, Accounted, RemovedIsGone, DeletedWasRemoved, CodeAsStored, IdleRequest, Ids
<1>4. DeletedOnce /\ FoundInTime /\ RunsStored
  BY DEF DeletedOnce, FoundInTime, RunsStored, Removed, IdleRequest, At, Answered
<1>. QED
  BY <1>1, <1>2, <1>3, <1>4 DEF IInv


\* A call that lets go of the map or never touched it: Tell, Drop and the steps
\* that execute code.
LEMMA QuietStep ==
  ASSUME IInv, NEW c \in Calls,
         Tell(c) \/ Drop(c) \/ Prepare(c) \/ Execute(c) \/ Forward(c) \/ ForwardEnd(c)
  PROVE  IInv'
<1> USE DEF IInv
<1> req[c] \in Request
  BY DEF TypeOK
<1>1. CASE Tell(c)
  <2>1. PICK answer \in {"stored", "deleted", "listed"} :
          /\ req' = [req EXCEPT ![c] = [req[c] EXCEPT !.pc = "done", !.answer = answer]]
          /\ req[c].method = CASE answer = "stored" -> "store"
                               [] answer = "deleted" -> "delete_script"
                               [] answer = "listed" -> "list_scripts"
    BY <1>1 DEF Tell, Answer
  <2> DEFINE q == [req[c] EXCEPT !.pc = "done", !.answer = answer]
  <2>2. /\ q \in Request
        /\ q.method = req[c].method /\ q.id = req[c].id /\ q.code = req[c].code
        /\ q.listed = req[c].listed /\ q.stored = req[c].stored /\ q.deleted = req[c].deleted
        /\ q.pc = "done" /\ q.answer = answer
    BY DEF Request, Answers
  <2>3. req' = [req EXCEPT ![c] = q]
    BY <2>1
  <2> HIDE DEF q
  <2>4. /\ req' \in [Calls -> Request] /\ req'[c] = q
        /\ \A d \in Calls \ {c} : req'[d] = req[d]
    BY <2>2, <2>3, OneMoves
  <2>5. At(c, "tell") /\ UNCHANGED <<scripts, used, phase, outcome>>
    BY <1>1 DEF Tell, stream
  <2>6. TypeOK' /\ Shape' /\ RunnerShape'
    <3>1. TypeOK'
      BY <2>2, <2>4, <2>5 DEF TypeOK, At
    <3>2. Shape'
      BY <2>1, <2>2, <2>4, <2>5 DEF Shape, At, Answered
    <3>3. RunnerShape'
      BY <2>1, <2>2, <2>4, <2>5 DEF RunnerShape, At, Answered, TypeOK
    <3>. QED
      BY <3>1, <3>2, <3>3
  <2>7. \A id \in ScriptIds : Removed(c, id)' <=> Removed(c, id)
    BY <2>1, <2>2, <2>4, <2>5 DEF Removed, At, Answered, Shape
  <2>. QED
    BY <2>2, <2>3, <2>5, <2>6, <2>7, KnowsTheSame DEF At
<1>2. CASE Drop(c)
  <2> DEFINE q == [req[c] EXCEPT !.pc = "gone"]
  <2>1. q \in Request
    BY DEF Request
  <2>2. /\ req' = [req EXCEPT ![c] = q]
        /\ At(c, "act") \/ At(c, "run") \/ (At(c, "tell") /\ req[c].method = "list_scripts")
    BY <1>2 DEF Drop
  <2>3. /\ req' \in [Calls -> Request] /\ req'[c] = q
        /\ \A d \in Calls \ {c} : req'[d] = req[d]
    BY <2>1, <2>2, OneMoves
  <2>4. TypeOK'
    BY <1>2, <2>3 DEF TypeOK, Drop, Runner!Drop, stream, At
  <2>5. Shape' /\ RunnerShape'
    BY <1>2, <2>3 DEF Shape, RunnerShape, Drop, Runner!Drop, stream, At, Answered, TypeOK
  <2>6. \A id \in ScriptIds : Removed(c, id)' <=> Removed(c, id)
    BY <2>2, <2>3 DEF Removed, At, Answered, Shape
  <2> HIDE DEF q
  <2>7. /\ q.method = req[c].method /\ q.id = req[c].id /\ q.code = req[c].code
        /\ q.listed = req[c].listed /\ q.stored = req[c].stored /\ q.deleted = req[c].deleted
        /\ q.answer = req[c].answer /\ q.pc = "gone"
    BY DEF q, Request
  <2>. QED
    BY <1>2, <2>1, <2>2, <2>4, <2>5, <2>6, <2>7, KnowsTheSame DEF Drop
<1>3. CASE Prepare(c)
  <2>1. PICK q \in {[req[c] EXCEPT !.pc = "run"],
                    [req[c] EXCEPT !.pc = "done", !.answer = "not_prepared"]} :
          req' = [req EXCEPT ![c] = q]
    BY <1>3 DEF Prepare, Answer
  <2>2. /\ q \in Request
        /\ q.method = req[c].method /\ q.id = req[c].id /\ q.code = req[c].code
        /\ q.listed = req[c].listed /\ q.stored = req[c].stored /\ q.deleted = req[c].deleted
        /\ \/ q.pc = "run" /\ q.answer = req[c].answer
           \/ q.pc = "done" /\ q.answer = "not_prepared"
    BY DEF Request, Answers
  <2>3. /\ req' \in [Calls -> Request] /\ req'[c] = q
        /\ \A d \in Calls \ {c} : req'[d] = req[d]
    BY <2>1, <2>2, OneMoves
  <2>4. At(c, "act") /\ req[c].method = "execute" /\ UNCHANGED <<scripts, used, phase, outcome>>
    BY <1>3 DEF Prepare, On, stream
  <2>5. TypeOK'
    BY <2>2, <2>3, <2>4 DEF TypeOK, At, Shape
  <2>6. Shape' /\ RunnerShape'
    BY <2>2, <2>3, <2>4 DEF Shape, RunnerShape, At, Answered, TypeOK
  <2>7. \A id \in ScriptIds : Removed(c, id)' <=> Removed(c, id)
    BY <2>2, <2>3, <2>4 DEF Removed, At, Answered, Shape
  <2>. QED
    BY <2>1, <2>2, <2>4, <2>5, <2>6, <2>7, KnowsTheSame
<1>4. CASE Execute(c) \/ Forward(c) \/ ForwardEnd(c)
  <2>1. At(c, "run") /\ UNCHANGED <<scripts, used>>
    BY <1>4 DEF Execute, Forward, ForwardEnd
  <2>2. PICK q \in {req[c], [req[c] EXCEPT !.pc = "done", !.answer = "forwarded"]} :
          /\ req' = [req EXCEPT ![c] = q]
          /\ ForwardEnd(c) <=> q # req[c]
          /\ q # req[c] => q.pc = "done" /\ q.answer = "forwarded"
    BY <1>4, <2>1 DEF Execute, Forward, ForwardEnd, Answer, TypeOK, At, Request, Runner!Close,
                      Runner!Open, Runner!Tell
  <2>3. /\ q \in Request
        /\ q.method = req[c].method /\ q.id = req[c].id /\ q.code = req[c].code
        /\ q.listed = req[c].listed /\ q.stored = req[c].stored /\ q.deleted = req[c].deleted
    BY DEF Request, Answers
  <2>4. /\ req' \in [Calls -> Request] /\ req'[c] = q
        /\ \A d \in Calls \ {c} : req'[d] = req[d]
    BY <2>2, <2>3, OneMoves
  <2>5. TypeOK'
    BY <1>4, <2>1, <2>2, <2>3, <2>4
    DEF TypeOK, At, Execute, Forward, ForwardEnd, Runner!Open, Runner!Tell, Runner!Close
  <2>6. Shape'
    BY <2>1, <2>2, <2>3, <2>4 DEF Shape, At, Answered
  <2>7. RunnerShape'
    BY <1>4, <2>1, <2>2, <2>3, <2>4
    DEF RunnerShape, TypeOK, At, Answered, Execute, Forward, ForwardEnd, Runner!Open,
        Runner!Tell, Runner!Close, Shape
  <2>8. \A id \in ScriptIds : Removed(c, id)' <=> Removed(c, id)
    BY <2>1, <2>2, <2>3, <2>4 DEF Removed, At, Answered, Shape
  <2>. QED
    BY <2>1, <2>2, <2>3, <2>5, <2>6, <2>7, <2>8, KnowsTheSame DEF At, Shape
<1>. QED
  BY <1>1, <1>2, <1>3, <1>4

\* A call begins with what was told before, which is of drawn ids.
LEMMA BeginKeeps ==
  ASSUME IInv, NEW c \in Calls, Begin(c)
  PROVE  IInv'
<1> USE DEF IInv
<1>1. At(c, "idle") /\ UNCHANGED <<scripts, used, phase, outcome>>
  BY DEF Begin, stream
<1>2. /\ ToldOf("stored") \subseteq used
      /\ \A id \in ToldOf("deleted") : id \in used /\ \E d \in Calls : Removed(d, id)
      /\ Listed \subseteq used /\ used \subseteq ScriptIds
  <2>1. used \subseteq ScriptIds
    BY DEF TypeOK
  <2>2. \A d \in Calls : Answered(d, "stored") \/ Answered(d, "deleted") => req[d].id \in used
    BY NoneIsNew DEF Shape, UsedIds
  <2>3. \A d \in Calls : Answered(d, "deleted") => Removed(d, req[d].id)
    BY DEF Shape, Removed
  <2>. QED
    BY <2>1, <2>2, <2>3 DEF ToldOf, Listed, UsedIds
<1>3. PICK q \in Request :
        /\ req' = [req EXCEPT ![c] = q]
        /\ q.pc = "act" /\ q.answer = "none" /\ q.listed = {}
        /\ q.stored = ToldOf("stored") /\ q.deleted = ToldOf("deleted")
        /\ q.method \in {"store", "execute"} => q.code \in Codes
        /\ q.method \notin {"store", "execute"} => q.code = None
        /\ q.method \in {"store", "list_scripts"} => q.id = None
        /\ q.id # None => q.id \in used
  <2>1. PICK method \in Methods, id \in used \cup {None}, code \in Codes \cup {None} :
          /\ req' = [req EXCEPT ![c] =
               [IdleRequest EXCEPT !.pc = "act", !.method = method, !.id = id, !.code = code,
                  !.stored = ToldOf("stored"), !.deleted = ToldOf("deleted")]]
          /\ code # None <=> method \in {"store", "execute"}
          /\ id # None => method \in {"execute_script", "delete_script"}
    BY <1>2 DEF Begin
  <2> DEFINE q == [IdleRequest EXCEPT !.pc = "act", !.method = method, !.id = id, !.code = code,
                     !.stored = ToldOf("stored"), !.deleted = ToldOf("deleted")]
  <2>2. q \in Request
    BY <1>2 DEF IdleRequest, Request, Answers
  <2>3. /\ q.pc = "act" /\ q.answer = "none" /\ q.listed = {} /\ q.method = method
        /\ q.id = id /\ q.code = code /\ q.stored = ToldOf("stored") /\ q.deleted = ToldOf("deleted")
    BY DEF IdleRequest
  <2>4. req' = [req EXCEPT ![c] = q]
    BY <2>1
  <2> HIDE DEF q
  <2> WITNESS q \in Request
  <2>. QED
    BY <2>1, <2>3, <2>4
<1>4. /\ req' \in [Calls -> Request] /\ req'[c] = q
      /\ \A d \in Calls \ {c} : req'[d] = req[d]
      /\ \A d \in Calls \ {c} : \A id \in ScriptIds : Removed(d, id)' <=> Removed(d, id)
  BY <1>3, OneMoves
<1>5. \A id \in ScriptIds : ~Removed(c, id) /\ ~Removed(c, id)'
  BY <1>1, <1>3, <1>4 DEF Removed, At, Answered, Shape
<1>6. Ids' = Ids /\ Ids \subseteq ScriptIds
  BY <1>1 DEF Ids, TypeOK, Stored
<1>7. TypeOK' /\ Shape' /\ RunnerShape'
  <2>1. TypeOK'
    BY <1>1, <1>3, <1>4 DEF TypeOK, At
  <2>2. Shape'
    BY <1>1, <1>3, <1>4 DEF Shape, At, Answered
  <2>3. RunnerShape'
    BY <1>1, <1>3, <1>4 DEF RunnerShape, At, Answered, TypeOK, Shape
  <2>. QED
    BY <2>1, <2>2, <2>3
<1>8. UsedIds'
  BY <1>1, <1>2, <1>3, <1>4, <1>6 DEF UsedIds
<1>9. Accounted' /\ RemovedIsGone' /\ DeletedOnce'
  BY <1>1, <1>4, <1>5, <1>6 DEF Accounted, RemovedIsGone, DeletedOnce, TypeOK
<1>10. DeletedWasRemoved'
  <2>1. \A d \in Calls : \A id \in ScriptIds : Removed(d, id) => Removed(d, id)'
    BY <1>4, <1>5
  <2>2. \A d \in Calls : req[d].deleted \subseteq ScriptIds
    BY DEF TypeOK, Request
  <2>. QED
    BY <1>2, <1>3, <1>4, <2>1, <2>2 DEF DeletedWasRemoved
<1>11. CodeAsStored'
  BY <1>1, <1>3, <1>4, <1>6, NoneIsNew DEF CodeAsStored, TypeOK, Stored
<1>12. FoundInTime'
  <2>1. \A d \in Calls : \A id \in ScriptIds : Removed(d, id) => Removed(d, id)'
    BY <1>4, <1>5
  <2>2. \A d \in Calls : req[d].stored \subseteq ScriptIds
    BY DEF TypeOK, Request
  <2>3. ASSUME NEW d \in Calls
        PROVE  /\ Answered(d, "not_found")' /\ req'[d].id \in req'[d].stored =>
                    \E e \in Calls : Removed(e, req'[d].id)
               /\ req'[d].method = "execute_script" /\ req'[d].code # None =>
                    req'[d].id \notin req'[d].deleted
               /\ req'[d].method = "list_scripts" /\ (At(d, "tell")' \/ At(d, "done")') =>
                    /\ req'[d].listed \cap req'[d].deleted = {}
                    /\ \A id \in req'[d].stored \ req'[d].listed : \E e \in Calls : Removed(e, id)
    BY <1>3, <1>4 DEF FoundInTime, Answered, At
  <2>4. \A d \in Calls : req'[d].stored \subseteq ScriptIds
    BY <1>4 DEF Request
  <2>. QED
    BY <2>1, <2>3, <2>4 DEF FoundInTime
<1>13. RunsStored'
  BY <1>3, <1>4, NoneIsNew DEF RunsStored, Shape
<1>. QED
  BY <1>7, <1>8, <1>9, <1>10, <1>11, <1>12, <1>13

\* A store takes an id nobody has seen: no script, no call and no deletion is under it.
LEMMA StoreKeeps ==
  ASSUME IInv, NEW c \in Calls, Store(c)
  PROVE  IInv'
<1> USE DEF IInv
<1>1. At(c, "act") /\ req[c].method = "store" /\ UNCHANGED <<phase, outcome>>
  BY DEF Store, On, stream
<1>2. PICK id \in ScriptIds \ used : Put(c, id)
  BY DEF Store
<1> DEFINE q == [req[c] EXCEPT !.pc = "tell", !.id = id]
<1>3. /\ q \in Request /\ q.pc = "tell" /\ q.id = id /\ q.method = "store"
      /\ q.code = req[c].code /\ q.listed = req[c].listed /\ q.stored = req[c].stored
      /\ q.deleted = req[c].deleted /\ q.answer = req[c].answer
  BY <1>1 DEF Request, TypeOK
<1>4. req' = [req EXCEPT ![c] = q] /\ used' = used \cup {id}
  BY <1>2 DEF Put
<1> HIDE DEF q
<1>5. /\ req' \in [Calls -> Request] /\ req'[c] = q
      /\ \A d \in Calls \ {c} : req'[d] = req[d]
      /\ \A d \in Calls \ {c} : \A i \in ScriptIds : Removed(d, i)' <=> Removed(d, i)
  BY <1>3, <1>4, OneMoves
<1>6. \A i \in ScriptIds : ~Removed(c, i) /\ ~Removed(c, i)'
  BY <1>1, <1>3, <1>5 DEF Removed
<1>7. scripts' = scripts \cup {[id |-> id, code |-> req[c].code]} /\ Ids' = Ids \cup {id}
  <2>1. \A s \in scripts : s.id # id
    BY DEF UsedIds, Ids
  <2>2. {s \in scripts : s.id # id} = scripts
    BY <2>1
  <2>3. scripts' = scripts \cup {[id |-> id, code |-> req[c].code]}
    BY <1>2, <2>2 DEF Put
  <2>4. Ids' = Ids \cup {id}
    <3>1. \A i : i \in Ids' <=> \E s \in scripts' : i = s.id
      BY DEF Ids
    <3>2. \A i : i \in Ids <=> \E s \in scripts : i = s.id
      BY DEF Ids
    <3>3. [id |-> id, code |-> req[c].code].id = id
      OBVIOUS
    <3>. QED
      BY <2>3, <3>1, <3>2, <3>3
  <2>. QED
    BY <2>3, <2>4
<1>8. Ids \subseteq used /\ used \subseteq ScriptIds /\ req[c].code \in Codes
  BY <1>1 DEF UsedIds, TypeOK, Shape
<1>9. \A d \in Calls : req[d].id # id
  BY <1>2, NoneIsNew DEF UsedIds
<1>10. TypeOK' /\ Shape' /\ RunnerShape'
  <2>1. TypeOK'
    BY <1>1, <1>3, <1>4, <1>5, <1>7, <1>8 DEF TypeOK, At, Stored
  <2>2. Shape'
    BY <1>1, <1>3, <1>5 DEF Shape, At, Answered
  <2>3. RunnerShape'
    BY <1>1, <1>3, <1>5 DEF RunnerShape, At, Answered, TypeOK
  <2>. QED
    BY <2>1, <2>2, <2>3
<1>11. UsedIds'
  BY <1>3, <1>4, <1>5, <1>7 DEF UsedIds
<1>12. Accounted'
  BY <1>4, <1>5, <1>6, <1>7, <1>8 DEF Accounted
<1>13. RemovedIsGone'
  <2>1. \A d \in Calls : ~Removed(d, id)
    BY <1>9 DEF Removed
  <2>. QED
    BY <1>5, <1>6, <1>7, <1>8, <2>1 DEF RemovedIsGone
<1>14. DeletedOnce'
  BY <1>5, <1>6 DEF DeletedOnce
<1>15. DeletedWasRemoved'
  <2>1. \A d \in Calls : req[d].deleted \subseteq ScriptIds
    BY DEF TypeOK, Request
  <2>. QED
    BY <1>3, <1>5, <1>6, <2>1 DEF DeletedWasRemoved
<1>16. CodeAsStored'
  BY <1>3, <1>5, <1>7, <1>8, <1>9 DEF CodeAsStored, Ids
<1>17. FoundInTime'
  <2>1. \A d \in Calls : \A i \in ScriptIds : Removed(d, i)' <=> Removed(d, i)
    BY <1>5, <1>6
  <2>2. \A d \in Calls : req[d].stored \subseteq ScriptIds
    BY DEF TypeOK, Request
  <2>. QED
    BY <1>1, <1>3, <1>5, <2>1, <2>2 DEF FoundInTime, Answered, At, Shape
<1>18. RunsStored'
  BY <1>3, <1>5, <1>9 DEF RunsStored
<1>. QED
  BY <1>10, <1>11, <1>12, <1>13, <1>14, <1>15, <1>16, <1>17, <1>18

\* A script that is found was not removed, so it was not reported deleted before; one
\* that is not found was removed if it was ever stored.
LEMMA LoadKeeps ==
  ASSUME IInv, NEW c \in Calls, Load(c)
  PROVE  IInv'
<1> USE DEF IInv
<1>1. /\ At(c, "act") /\ req[c].method = "execute_script" /\ req[c].code = None
      /\ UNCHANGED <<scripts, used, phase, outcome>>
  BY DEF Load, On, stream, Shape
<1>2. PICK q \in Request :
        /\ req' = [req EXCEPT ![c] = q]
        /\ q.method = req[c].method /\ q.id = req[c].id /\ q.listed = req[c].listed
        /\ q.stored = req[c].stored /\ q.deleted = req[c].deleted
        /\ \/ /\ q.pc = "done" /\ q.answer = "not_found" /\ q.code = None
              /\ q.id \notin Ids
           \/ /\ q.pc = "run" /\ q.answer = req[c].answer /\ q.code \in Codes
              /\ \E s \in scripts : s.id = q.id /\ s.code = q.code
  <2>1. CASE req[c].id \notin Ids /\ Answer(c, "not_found")
    <3> DEFINE q == [req[c] EXCEPT !.pc = "done", !.answer = "not_found"]
    <3>1. /\ q \in Request
          /\ q.method = req[c].method /\ q.id = req[c].id /\ q.listed = req[c].listed
          /\ q.stored = req[c].stored /\ q.deleted = req[c].deleted /\ q.code = req[c].code
          /\ q.pc = "done" /\ q.answer = "not_found"
      BY DEF TypeOK, Request, Answers
    <3>2. req' = [req EXCEPT ![c] = q]
      BY <2>1 DEF Answer
    <3> HIDE DEF q
    <3>. QED
      BY <1>1, <2>1, <3>1, <3>2
  <2>2. CASE \E s \in scripts :
               s.id = req[c].id /\ req' = [req EXCEPT ![c].pc = "run", ![c].code = s.code]
    <3>1. PICK s \in scripts :
            s.id = req[c].id /\ req' = [req EXCEPT ![c].pc = "run", ![c].code = s.code]
      BY <2>2
    <3> DEFINE q == [req[c] EXCEPT !.pc = "run", !.code = s.code]
    <3>2. s.code \in Codes
      BY DEF TypeOK, Stored
    <3>3. /\ q \in Request
          /\ q.method = req[c].method /\ q.id = req[c].id /\ q.listed = req[c].listed
          /\ q.stored = req[c].stored /\ q.deleted = req[c].deleted /\ q.code = s.code
          /\ q.pc = "run" /\ q.answer = req[c].answer
      BY <3>2 DEF TypeOK, Request
    <3>4. req' = [req EXCEPT ![c] = q]
      BY <3>1 DEF TypeOK, Request
    <3> HIDE DEF q
    <3>. QED
      BY <3>1, <3>2, <3>3, <3>4
  <2>. QED
    BY <2>1, <2>2 DEF Load
<1>3. /\ req' \in [Calls -> Request] /\ req'[c] = q
      /\ \A d \in Calls \ {c} : req'[d] = req[d]
      /\ \A d \in Calls \ {c} : \A id \in ScriptIds : Removed(d, id)' <=> Removed(d, id)
  BY <1>2, OneMoves
<1>4. \A d \in Calls : \A id \in ScriptIds : Removed(d, id)' <=> Removed(d, id)
  BY <1>1, <1>2, <1>3 DEF Removed
<1>5. Ids' = Ids /\ Ids \subseteq ScriptIds /\ used \subseteq ScriptIds
  BY <1>1 DEF Ids, TypeOK, Stored
<1>6. TypeOK' /\ Shape' /\ RunnerShape'
  <2>1. TypeOK'
    BY <1>1, <1>2, <1>3 DEF TypeOK, At
  <2>2. Shape'
    <3>1. q.code # None => q.id \in ScriptIds
      BY <1>2, NoneIsNew DEF TypeOK, Stored
    <3>. QED
      BY <1>1, <1>2, <1>3, <3>1 DEF Shape, At, Answered
  <2>3. RunnerShape'
    <3>1. phase[c] = "new"
      BY <1>1 DEF RunnerShape, Shape, At, Answered
    <3>. QED
      BY <1>1, <1>2, <1>3, <3>1 DEF RunnerShape, At, Answered
  <2>. QED
    BY <2>1, <2>2, <2>3
<1>7. UsedIds'
  BY <1>1, <1>2, <1>3, <1>5 DEF UsedIds
<1>8. Accounted' /\ RemovedIsGone' /\ DeletedOnce'
  BY <1>1, <1>4, <1>5 DEF Accounted, RemovedIsGone, DeletedOnce
<1>9. DeletedWasRemoved'
  <2>1. \A d \in Calls : req[d].deleted \subseteq ScriptIds
    BY DEF TypeOK, Request
  <2>. QED
    BY <1>2, <1>3, <1>4, <2>1 DEF DeletedWasRemoved
<1>10. CodeAsStored'
  BY <1>1, <1>2, <1>3 DEF CodeAsStored
<1>11. FoundInTime'
  <2>1. \A d \in Calls : req[d].stored \subseteq ScriptIds /\ req[d].deleted \subseteq ScriptIds
    BY DEF TypeOK, Request
  <2>2. q.answer = "not_found" /\ q.id \in q.stored => \E d \in Calls : Removed(d, q.id)
    <3>1. q.answer = "not_found" => q.id \notin Ids
      BY <1>1, <1>2 DEF Shape, Answered, At
    <3>2. q.stored \subseteq used
      BY <1>2 DEF UsedIds
    <3>. QED
      BY <3>1, <3>2 DEF Accounted
  <2>3. q.code # None => q.id \notin q.deleted
    <3>1. q.code # None => q.id \in Ids
      BY <1>2 DEF Ids
    <3>. QED
      BY <1>2, <3>1 DEF DeletedWasRemoved, RemovedIsGone
  <2>. QED
    BY <1>1, <1>2, <1>3, <1>4, <2>1, <2>2, <2>3 DEF FoundInTime, Answered, At
<1>12. RunsStored'
  BY <1>1, <1>2, <1>3 DEF RunsStored, CodeAsStored
<1>. QED
  BY <1>6, <1>7, <1>8, <1>9, <1>10, <1>11, <1>12

\* Removing a script makes this call the one that removed it: nobody did before.
LEMMA DeleteKeeps ==
  ASSUME IInv, NEW c \in Calls, Delete(c)
  PROVE  IInv'
<1> USE DEF IInv
<1>1. /\ At(c, "act") /\ req[c].method = "delete_script"
      /\ UNCHANGED <<used, phase, outcome>>
      /\ scripts' = {s \in scripts : s.id # req[c].id}
  BY DEF Delete, On, stream
<1>2. PICK q \in Request :
        /\ req' = [req EXCEPT ![c] = q]
        /\ q.method = req[c].method /\ q.id = req[c].id /\ q.listed = req[c].listed
        /\ q.stored = req[c].stored /\ q.deleted = req[c].deleted /\ q.code = req[c].code
        /\ \/ q.pc = "done" /\ q.answer = "not_found" /\ q.id \notin Ids
           \/ q.pc = "tell" /\ q.answer = req[c].answer /\ q.id \in Ids
  <2>1. PICK pc \in {"done", "tell"}, answer \in Answers :
          /\ req' = [req EXCEPT ![c] = [req[c] EXCEPT !.pc = pc, !.answer = answer]]
          /\ \/ pc = "done" /\ answer = "not_found" /\ req[c].id \notin Ids
             \/ pc = "tell" /\ answer = req[c].answer /\ req[c].id \in Ids
    <3>1. CASE req[c].id \notin Ids /\ Answer(c, "not_found")
      BY <3>1 DEF Answer, Answers
    <3>2. CASE req[c].id \in Ids /\ req' = [req EXCEPT ![c].pc = "tell"]
      <4>1. [req[c] EXCEPT !.pc = "tell"] = [req[c] EXCEPT !.pc = "tell", !.answer = req[c].answer]
        BY DEF TypeOK, Request
      <4>2. req[c].answer \in Answers
        BY DEF TypeOK, Request
      <4>. QED
        BY <3>2, <4>1, <4>2
    <3>. QED
      BY <3>1, <3>2 DEF Delete
  <2> DEFINE q == [req[c] EXCEPT !.pc = pc, !.answer = answer]
  <2>2. /\ q \in Request
        /\ q.method = req[c].method /\ q.id = req[c].id /\ q.listed = req[c].listed
        /\ q.stored = req[c].stored /\ q.deleted = req[c].deleted /\ q.code = req[c].code
        /\ q.pc = pc /\ q.answer = answer
    BY DEF TypeOK, Request
  <2>3. req' = [req EXCEPT ![c] = q]
    BY <2>1
  <2> HIDE DEF q
  <2>. QED
    BY <2>1, <2>2, <2>3
<1>3. /\ req' \in [Calls -> Request] /\ req'[c] = q
      /\ \A d \in Calls \ {c} : req'[d] = req[d]
      /\ \A d \in Calls \ {c} : \A id \in ScriptIds : Removed(d, id)' <=> Removed(d, id)
  BY <1>2, OneMoves
<1>4. /\ \A id \in ScriptIds : ~Removed(c, id)
      /\ \A id \in ScriptIds : Removed(c, id)' <=> id = req[c].id /\ id \in Ids
  BY <1>1, <1>2, <1>3 DEF Removed, At, Answered, Shape
<1>5. /\ Ids' = Ids \ {req[c].id} /\ Ids \subseteq ScriptIds /\ used \subseteq ScriptIds
      /\ scripts' \subseteq scripts
  BY <1>1 DEF Ids, TypeOK, Stored
<1>6. TypeOK' /\ Shape' /\ RunnerShape'
  <2>1. TypeOK'
    BY <1>1, <1>2, <1>3 DEF TypeOK, At
  <2>2. Shape'
    BY <1>1, <1>2, <1>3, <1>5 DEF Shape, At, Answered
  <2>3. RunnerShape'
    <3>1. phase[c] = "new"
      BY <1>1 DEF RunnerShape, Shape, At, Answered
    <3>. QED
      BY <1>1, <1>2, <1>3, <3>1 DEF RunnerShape, At, Answered
  <2>. QED
    BY <2>1, <2>2, <2>3
<1>7. UsedIds'
  BY <1>1, <1>2, <1>3, <1>5 DEF UsedIds
<1>8. \A d \in Calls : \A id \in ScriptIds : Removed(d, id) => Removed(d, id)'
  BY <1>3, <1>4
<1>9. Accounted'
  <2>1. \A id \in Ids : id \in Ids' \/ Removed(c, id)'
    BY <1>4, <1>5
  <2>. QED
    BY <1>1, <1>5, <1>8, <2>1 DEF Accounted
<1>10. RemovedIsGone'
  BY <1>3, <1>4, <1>5 DEF RemovedIsGone
<1>11. DeletedOnce'
  BY <1>3, <1>4 DEF DeletedOnce, RemovedIsGone
<1>12. DeletedWasRemoved'
  <2>1. \A d \in Calls : req[d].deleted \subseteq ScriptIds
    BY DEF TypeOK, Request
  <2>. QED
    BY <1>2, <1>3, <1>8, <2>1 DEF DeletedWasRemoved
<1>13. CodeAsStored'
  BY <1>2, <1>3, <1>5 DEF CodeAsStored
<1>14. FoundInTime'
  <2>1. \A d \in Calls : req[d].stored \subseteq ScriptIds
    BY DEF TypeOK, Request
  <2>2. q.answer = "not_found" /\ q.id \in q.stored => \E d \in Calls : Removed(d, q.id)
    <3>1. q.answer = "not_found" => q.id \notin Ids
      BY <1>1, <1>2 DEF Shape, Answered, At
    <3>2. q.stored \subseteq used
      BY <1>2 DEF UsedIds
    <3>. QED
      BY <3>1, <3>2 DEF Accounted
  <2>. QED
    BY <1>1, <1>2, <1>3, <1>8, <2>1, <2>2 DEF FoundInTime, Answered, At
<1>15. RunsStored'
  BY <1>1, <1>2, <1>3 DEF RunsStored
<1>. QED
  BY <1>6, <1>7, <1>9, <1>10, <1>11, <1>12, <1>13, <1>14, <1>15

\* A list has all that was stored and not removed, and nothing that was removed.
LEMMA ListKeeps ==
  ASSUME IInv, NEW c \in Calls, List(c)
  PROVE  IInv'
<1> USE DEF IInv
<1>1. /\ At(c, "act") /\ req[c].method = "list_scripts"
      /\ UNCHANGED <<scripts, used, phase, outcome>>
  BY DEF List, On, stream
<1>2. Ids' = Ids /\ Ids \subseteq ScriptIds /\ used \subseteq ScriptIds
  BY <1>1 DEF Ids, TypeOK, Stored
<1> DEFINE q == [req[c] EXCEPT !.pc = "tell", !.listed = Ids]
<1>3. /\ q \in Request /\ q.pc = "tell" /\ q.listed = Ids /\ q.method = "list_scripts"
      /\ q.id = req[c].id /\ q.code = req[c].code /\ q.stored = req[c].stored
      /\ q.deleted = req[c].deleted /\ q.answer = req[c].answer
  BY <1>1, <1>2 DEF Request, TypeOK
<1>4. req' = [req EXCEPT ![c] = q]
  BY DEF List
<1> HIDE DEF q
<1>5. /\ req' \in [Calls -> Request] /\ req'[c] = q
      /\ \A d \in Calls \ {c} : req'[d] = req[d]
      /\ \A d \in Calls \ {c} : \A id \in ScriptIds : Removed(d, id)' <=> Removed(d, id)
  BY <1>3, <1>4, OneMoves
<1>6. \A d \in Calls : \A id \in ScriptIds : Removed(d, id)' <=> Removed(d, id)
  BY <1>1, <1>3, <1>5 DEF Removed
<1>7. TypeOK' /\ Shape' /\ RunnerShape'
  <2>1. TypeOK'
    BY <1>1, <1>3, <1>5 DEF TypeOK, At
  <2>2. Shape'
    BY <1>1, <1>3, <1>5 DEF Shape, At, Answered
  <2>3. RunnerShape'
    <3>1. phase[c] = "new"
      BY <1>1 DEF RunnerShape, Shape, At, Answered
    <3>. QED
      BY <1>1, <1>3, <1>5, <3>1 DEF RunnerShape, At, Answered
  <2>. QED
    BY <2>1, <2>2, <2>3
<1>8. UsedIds'
  BY <1>1, <1>2, <1>3, <1>5 DEF UsedIds
<1>9. Accounted' /\ RemovedIsGone' /\ DeletedOnce'
  BY <1>1, <1>2, <1>6 DEF Accounted, RemovedIsGone, DeletedOnce
<1>10. DeletedWasRemoved'
  <2>1. \A d \in Calls : req[d].deleted \subseteq ScriptIds
    BY DEF TypeOK, Request
  <2>. QED
    BY <1>3, <1>5, <1>6, <2>1 DEF DeletedWasRemoved
<1>11. CodeAsStored' /\ RunsStored'
  BY <1>1, <1>3, <1>5 DEF CodeAsStored, RunsStored
<1>12. FoundInTime'
  <2>1. \A d \in Calls : req[d].stored \subseteq ScriptIds /\ req[d].deleted \subseteq ScriptIds
    BY DEF TypeOK, Request
  <2>2. q.listed \cap q.deleted = {}
    BY <1>3 DEF DeletedWasRemoved, RemovedIsGone
  <2>3. \A id \in q.stored \ q.listed : \E d \in Calls : Removed(d, id)
    BY <1>3 DEF UsedIds, Accounted
  <2>. QED
    BY <1>1, <1>3, <1>5, <1>6, <2>1, <2>2, <2>3 DEF FoundInTime, Answered, At, Shape
<1>. QED
  BY <1>7, <1>8, <1>9, <1>10, <1>11, <1>12

\* Every step keeps the invariant.
LEMMA NextKeeps == IInv /\ [Next]_vars => IInv'
<1>. SUFFICES ASSUME IInv, [Next]_vars PROVE IInv'
  OBVIOUS
<1>1. CASE UNCHANGED vars
  BY <1>1 DEF vars, IInv, TypeOK, Shape, RunnerShape, UsedIds, Accounted, RemovedIsGone,
              DeletedWasRemoved, CodeAsStored, DeletedOnce, FoundInTime, RunsStored, Removed,
              Ids, At, Answered
<1>2. CASE Next
  <2>1. PICK c \in Calls :
          Begin(c) \/ Step(c) \/ Prepare(c) \/ Forward(c) \/ ForwardEnd(c) \/ Drop(c)
    BY <1>2 DEF Next
  <2>. QED
    BY <2>1, BeginKeeps, StoreKeeps, LoadKeeps, DeleteKeeps, ListKeeps, QuietStep DEF Step
<1>. QED
  BY <1>1, <1>2

LEMMA Invariance == Spec => []IInv
BY InitHolds, NextKeeps, PTL DEF Spec

-----------------------------------------------------------------------------
(* Theorems *)

\* The scripts, the calls and the runner's streams keep their types, and what runs has code.
THEOREM TypeCorrect == Spec => []TypeOK
BY Invariance, PTL DEF IInv

\* Of all deletions of a script that race, one reports it deleted.
THEOREM DeletedByOne == Spec => []DeletedOnce
BY Invariance, PTL DEF IInv

\* What a call finds of a script agrees with what was reported before the call began.
THEOREM FoundAsReported == Spec => []FoundInTime
BY Invariance, PTL DEF IInv

\* What runs under an id is what was stored under it.
THEOREM RunsAsStored == Spec => []RunsStored
BY Invariance, PTL DEF IInv

-----------------------------------------------------------------------------
(* Refinement: a call that executes code is an ExecutionStream *)

\* A step in which one call's stream makes a move of the abstract stream, or none,
\* is a step of the abstract streams.
LEMMA MoveMaps ==
  ASSUME NEW c \in Calls,
         \A d \in Calls \ {c} : CallPhase(d)' = CallPhase(d) /\ CallOutcome(d)' = CallOutcome(d),
         \/ CallPhase(c)' = CallPhase(c) /\ CallOutcome(c)' = CallOutcome(c)
         \/ CallPhase(c) = "new" /\ CallPhase(c)' = "open" /\ CallOutcome(c)' = CallOutcome(c)
         \/ /\ CallPhase(c) = "open" /\ CallPhase(c)' = "open"
            /\ CallOutcome(c) = "none" /\ CallOutcome(c)' \in {"returned", "error"}
         \/ /\ CallPhase(c) = "open" /\ CallPhase(c)' = "ended"
            /\ \/ CallOutcome(c)' = CallOutcome(c)
               \/ CallOutcome(c) = "none" /\ CallOutcome(c)' = "error"
         \/ CallPhase(c) = "open" /\ CallPhase(c)' = "dropped" /\ CallOutcome(c)' = CallOutcome(c)
  PROVE  [CallStream!Next]_(CallStream!stream)
<1> DEFINE P == [d \in Calls |-> CallPhase(d)]
           O == [d \in Calls |-> CallOutcome(d)]
<1>1. /\ P' = [P EXCEPT ![c] = CallPhase(c)']
      /\ O' = [O EXCEPT ![c] = CallOutcome(c)']
      /\ P[c] = CallPhase(c) /\ O[c] = CallOutcome(c)
  OBVIOUS
<1>2. /\ CallPhase(c)' = CallPhase(c) => P' = P
      /\ CallOutcome(c)' = CallOutcome(c) => O' = O
  OBVIOUS
<1>3. P \in [Calls -> {"new", "open", "ended", "dropped"}]
  BY DEF CallPhase
<1> HIDE DEF P, O
<1>4. CASE CallPhase(c) = "open" /\ CallPhase(c)' = "dropped" /\ CallOutcome(c)' = CallOutcome(c)
  <2>1. P' = [d \in Calls |-> IF d \in {c} THEN "dropped" ELSE P[d]]
    BY <1>1, <1>3, <1>4
  <2>2. P[c] = "open" /\ O' = O /\ {c} \in SUBSET Calls
    BY <1>1, <1>2, <1>4
  <2>. QED
    BY <2>1, <2>2 DEF P, O, CallStream!Next, CallStream!Drop
<1>. QED
  BY <1>1, <1>2, <1>4
  DEF P, O, CallStream!Next, CallStream!stream, CallStream!Open, CallStream!Tell, CallStream!Close

\* No call has begun, so no stream is open.
LEMMA InitMaps == Init => CallStream!Init
BY DEF Init, Runner!Init, CallStream!Init, CallPhase, CallOutcome, Executing, IdleRequest, At

\* Every step maps to a step of the abstract streams: the first poll opens one, an
\* error of the call's own and the end of the runner's stream close it.
LEMMA StepMaps == IInv /\ IInv' /\ [Next]_vars => [CallStream!Next]_(CallStream!stream)
<1>. SUFFICES ASSUME IInv, IInv', [Next]_vars PROVE [CallStream!Next]_(CallStream!stream)
  OBVIOUS
<1> USE DEF IInv
<1>1. CASE UNCHANGED vars
  BY <1>1 DEF vars, CallStream!stream, CallPhase, CallOutcome, Executing, At
<1>2. ASSUME NEW c \in Calls,
             Begin(c) \/ Step(c) \/ Prepare(c) \/ Forward(c) \/ ForwardEnd(c) \/ Drop(c)
      PROVE  [CallStream!Next]_(CallStream!stream)
  <2> DEFINE Same(d) == req'[d] = req[d] /\ outcome'[d] = outcome[d]
  <2>1. \A d \in Calls \ {c} : Same(d)
    BY <1>2
    DEF Begin, Step, Store, Load, Delete, List, Tell, Put, Answer, Prepare, Execute,
        Forward, ForwardEnd, Drop, Runner!Open, Runner!Tell, Runner!Close, Runner!Drop, stream, TypeOK
  <2>2. \A d \in Calls \ {c} : CallPhase(d)' = CallPhase(d) /\ CallOutcome(d)' = CallOutcome(d)
    BY <2>1 DEF CallPhase, CallOutcome, Executing, At
  <2> HIDE DEF Same
  <2>3. req[c] \in Request /\ req'[c] \in Request
    BY DEF TypeOK
  <2>4. /\ At(c, "idle") => req[c].answer = "none"
        /\ ~At(c, "done") => req[c].answer = "none"
        /\ ~At(c, "run") /\ ~At(c, "gone") /\ req[c].answer # "forwarded" =>
             phase[c] = "new" /\ outcome[c] = "none"
        /\ At(c, "run") => Executing(c)
    BY <2>3 DEF Shape, RunnerShape, At, Answered, Executing, IdleRequest
  <2>5. CASE Begin(c)
    <3>1. At(c, "idle") /\ req'[c].pc = "act" /\ req'[c].answer = "none" /\ outcome' = outcome
      BY <2>5 DEF Begin, TypeOK, IdleRequest, stream
    <3>. QED
      BY <2>2, <2>4, <3>1, MoveMaps DEF CallPhase, CallOutcome, Executing, At
  <2>6. CASE Store(c) \/ Delete(c) \/ List(c) \/ Tell(c)
    <3>1. ~Executing(c) /\ ~Executing(c)' /\ outcome' = outcome
      BY <2>3, <2>6
      DEF Store, Delete, List, Tell, Put, Answer, On, At, Executing, TypeOK, stream, Request
    <3>. QED
      BY <2>2, <3>1, MoveMaps DEF CallPhase, CallOutcome
  <2>7. CASE Load(c)
    <3>1. /\ At(c, "act") /\ Executing(c) /\ Executing(c)' /\ outcome' = outcome
          /\ \/ req'[c].pc = "done" /\ req'[c].answer = "not_found"
             \/ req'[c].pc = "run" /\ req'[c].answer = "none"
      BY <2>3, <2>4, <2>7 DEF Load, Answer, On, At, Executing, TypeOK, stream, Request
    <3>. QED
      BY <2>2, <2>4, <3>1, MoveMaps DEF CallPhase, CallOutcome, At
  <2>8. CASE Prepare(c)
    <3>1. /\ At(c, "act") /\ Executing(c) /\ Executing(c)' /\ outcome' = outcome
          /\ \/ req'[c].pc = "done" /\ req'[c].answer = "not_prepared"
             \/ req'[c].pc = "run" /\ req'[c].answer = "none"
      BY <2>3, <2>4, <2>8 DEF Prepare, Answer, On, At, Executing, TypeOK, stream, Request
    <3>. QED
      BY <2>2, <2>4, <3>1, MoveMaps DEF CallPhase, CallOutcome, At
  <2>9. CASE Execute(c) \/ Forward(c)
    <3>1. /\ At(c, "run") /\ req' = req
          /\ \/ outcome' = outcome
             \/ outcome[c] = "none" /\ outcome'[c] \in {"returned", "error"}
      BY <2>9 DEF Execute, Forward, Runner!Open, Runner!Tell, TypeOK
    <3>. QED
      BY <2>2, <2>4, <3>1, MoveMaps DEF CallPhase, CallOutcome, At, Executing
  <2>10. CASE ForwardEnd(c)
    <3>1. /\ At(c, "run") /\ Executing(c)' /\ req'[c].pc = "done" /\ req'[c].answer = "forwarded"
          /\ \/ outcome' = outcome
             \/ outcome[c] = "none" /\ outcome'[c] = "error"
      BY <2>3, <2>4, <2>10 DEF ForwardEnd, Answer, Runner!Close, TypeOK, Request, Executing
    <3>. QED
      BY <2>2, <2>4, <3>1, MoveMaps DEF CallPhase, CallOutcome, At
  <2>11. CASE Drop(c)
    <3>1. /\ At(c, "act") \/ At(c, "run") \/ ~Executing(c)
          /\ Executing(c)' = Executing(c) /\ req'[c].pc = "gone" /\ req'[c].answer = "none"
          /\ outcome' = outcome
      BY <2>3, <2>4, <2>11 DEF Drop, Runner!Drop, stream, TypeOK, Request, Executing, At
    <3>. QED
      BY <2>2, <2>4, <3>1, MoveMaps DEF CallPhase, CallOutcome, At
  <2>. QED
    BY <1>2, <2>5, <2>6, <2>7, <2>8, <2>9, <2>10, <2>11 DEF Step
<1>. QED
  BY <1>1, <1>2 DEF Next

\* Executing through JsExec promises what the runner's stream promises: one outcome
\* at most, and nothing after the end.
THEOREM RefinesStream == Spec => ImplementsStream
BY InitMaps, StepMaps, Invariance, PTL DEF Spec, ImplementsStream, CallStream!Spec

===============================================================================
