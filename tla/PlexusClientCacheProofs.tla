------------------------ MODULE PlexusClientCacheProofs ------------------------
(***************************************************************************)
(* Proofs about PlexusClientCache, for every set of requests and every set *)
(* of schemas: what overlapping writers leave in a cache file, and what a  *)
(* request that generated its bundle runs with.                            *)
(***************************************************************************)
EXTENDS PlexusClientCache, TLAPS

-----------------------------------------------------------------------------
(* Lemmas about one request's step *)

\* A request that moves on has the type of a request.
LEMMA RequestType ==
  ASSUME TypeOK, NEW r \in Requests
  PROVE  /\ req[r] \in Request
         /\ \A pc \in Pcs : [req[r] EXCEPT !.pc = pc] \in Request
         /\ \A pc \in Pcs, h \in Hashes : [req[r] EXCEPT !.pc = pc, !.hash = h] \in Request
         /\ \A pc \in Pcs, h \in Hashes : [req[r] EXCEPT !.pc = pc, !.ir = h] \in Request
         /\ \A pc \in Pcs, b \in Bundle : [req[r] EXCEPT !.pc = pc, !.bundle = b] \in Request
BY DEF TypeOK, Request

\* Whole bundles and the empty file are bundles.
LEMMA BundleType == Empty \in Bundle /\ \A h \in Hashes : Whole(h) \in Bundle
BY DEF Empty, Whole, Bundle

\* A step of one request that leaves the files alone, does not begin or end a
\* write, and forgets no schema, keeps what the invariant says of the others.
LEMMA OneRequest ==
  ASSUME IInv, NEW r \in Requests, NEW q \in Request,
         req' = [req EXCEPT ![r] = q],
         ~Writing(r), q.pc \notin {"put_head", "put_tail"},
         q.pc \notin {"idle", "get_hash", "failed", "gone"} => q.hash \in Hashes,
         q.pc = "read" => file[q.hash] \in Bundle,
         UNCHANGED <<schema, file, torn, slipped>>,
         seen' \in [Requests -> SUBSET Hashes],
         \A s \in Requests \ {r} : seen'[s] = seen[s],
         q.pc \notin {"idle", "hit", "generated", "failed", "gone"} => schema \in seen'[r],
         q.pc \in {"build", "put_open", "generated"} => q.ir \in seen'[r],
         q.pc \in {"put_open", "generated"} => q.bundle = Whole(q.ir)
  PROVE  IInv'
<1> USE DEF IInv
<1>1. TypeOK'
  BY DEF TypeOK, Request
<1>2. \A s \in Requests : req'[s] = IF s = r THEN q ELSE req[s]
  BY DEF TypeOK
<1>3. \A s \in Requests : Writing(s)' <=> Writing(s)
  BY <1>2 DEF Writing
<1>4. \A s \in Requests : Writing(s) => req'[s] = req[s]
  BY <1>2
<1>5. PiecesToCome'
  BY <1>3, <1>4 DEF PiecesToCome, Writing, At
<1>6. CarriesIr'
  BY <1>2 DEF CarriesIr, At, Answered, Writing
<1>7. FileOpened'
  BY <1>2, <1>3, <1>4 DEF FileOpened, At
<1>. QED
  BY <1>1, <1>5, <1>6, <1>7

\* A failed tool ends the request.
LEMMA FailKeeps ==
  ASSUME IInv, NEW r \in Requests, Fail(r), ~Writing(r)
  PROVE  IInv'
<1>1. "failed" \in Pcs
  BY DEF Pcs
<1>2. DEFINE q == [req[r] EXCEPT !.pc = "failed"]
<1>3. q \in Request /\ q.pc = "failed"
  BY <1>1, RequestType DEF IInv, Request
<1>4. req' = [req EXCEPT ![r] = q]
  BY DEF Fail
<1>. QED
  BY <1>3, <1>4, OneRequest DEF Fail, IInv, TypeOK

-----------------------------------------------------------------------------
(* The invariant *)

\* No request has begun and no file exists.
LEMMA InitHolds == Init => IInv
<1>. SUFFICES ASSUME Init PROVE IInv
  OBVIOUS
<1>1. TypeOK
  BY DEF Init, TypeOK, IdleRequest, Request, Pcs, Bundle, Empty
<1>2. FileOpened /\ CarriesIr
  BY DEF Init, FileOpened, CarriesIr, IdleRequest, At, Answered, Writing
<1>3. PiecesToCome
  BY NoneAssumption DEF Init, PiecesToCome
<1>. QED
  BY <1>1, <1>2, <1>3 DEF IInv

\* The steps before the file is opened, and those that leave it alone.
LEMMA QuietStep ==
  ASSUME IInv, NEW r \in Requests,
         Start(r) \/ GetBackendHash(r) \/ Lookup(r) \/ ReadRest(r) \/ GenerateIr(r) \/ Build(r)
           \/ Abandon(r)
  PROVE  IInv'
<1>. USE DEF IInv
<1>a. /\ req[r] \in Request /\ schema \in Hashes /\ seen \in [Requests -> SUBSET Hashes]
      /\ schema \in seen[r] \/ At(r, "idle") \/ Answered(r)
  BY RequestType DEF TypeOK, CarriesIr
<1>p. \A pc \in {"get_hash", "lookup", "read", "generate_ir", "build", "put_open", "hit", "gone"} :
        pc \in Pcs
  BY DEF Pcs
<1>1. CASE Start(r)
  <2>1. CASE Fail(r)
    BY <1>1, <2>1, FailKeeps DEF Start, At, Writing
  <2>2. CASE ~Fail(r)
    <3>. DEFINE q == [req[r] EXCEPT !.pc = "get_hash"]
    <3>1. q \in Request /\ q.pc = "get_hash"
      BY <1>a, <1>p, RequestType DEF Request
    <3>2. /\ req' = [req EXCEPT ![r] = q] /\ seen' = [seen EXCEPT ![r] = {schema}]
          /\ UNCHANGED <<schema, file, torn, slipped>> /\ ~Writing(r)
      BY <1>1, <2>2 DEF Start, At, Writing
    <3>. HIDE DEF q
    <3>. QED
      BY <1>a, <3>1, <3>2, OneRequest
  <2>. QED
    BY <2>1, <2>2
<1>2. CASE GetBackendHash(r)
  <2>1. CASE Fail(r)
    BY <1>2, <2>1, FailKeeps DEF GetBackendHash, At, Writing
  <2>2. CASE ~Fail(r)
    <3>. DEFINE q == [req[r] EXCEPT !.pc = "lookup", !.hash = schema]
    <3>1. q \in Request /\ q.pc = "lookup" /\ q.hash = schema
      BY <1>a, <1>p, RequestType DEF Request
    <3>2. /\ req' = [req EXCEPT ![r] = q] /\ schema \in seen[r]
          /\ UNCHANGED <<schema, file, seen, torn, slipped>> /\ ~Writing(r)
      BY <1>a, <1>2, <2>2 DEF GetBackendHash, At, Writing, Answered
    <3>. HIDE DEF q
    <3>. QED
      BY <1>a, <3>1, <3>2, OneRequest
  <2>. QED
    BY <2>1, <2>2
<1>3. CASE Lookup(r)
  <2>a. schema \in seen[r] /\ ~Writing(r) /\ req[r].hash \in Hashes
    BY <1>a, <1>3 DEF Lookup, At, Answered, Writing, TypeOK
  <2>1. CASE /\ file[req[r].hash] # None
             /\ req' = [req EXCEPT ![r].pc = "read", ![r].bundle.head = file[req[r].hash].head]
    <3>. DEFINE b == [req[r].bundle EXCEPT !.head = file[req[r].hash].head]
                q == [req[r] EXCEPT !.pc = "read", !.bundle = b]
    <3>1. file[req[r].hash] \in Bundle /\ req[r].bundle \in Bundle
      BY <1>a, <2>1, <2>a DEF TypeOK, Request
    <3>2. b \in Bundle
      BY <3>1 DEF Bundle
    <3>3. q \in Request /\ q.pc = "read" /\ q.hash = req[r].hash
      BY <1>a, <1>p, <3>2, RequestType DEF Request
    <3>4. req' = [req EXCEPT ![r] = q]
      BY <1>a, <2>1 DEF TypeOK, Request
    <3>5. UNCHANGED <<schema, file, seen, torn, slipped>>
      BY <1>3 DEF Lookup
    <3>. HIDE DEF q, b
    <3>. QED
      BY <1>a, <2>a, <3>1, <3>3, <3>4, <3>5, OneRequest
  <2>2. CASE req' = [req EXCEPT ![r].pc = "generate_ir"]
    <3>. DEFINE q == [req[r] EXCEPT !.pc = "generate_ir"]
    <3>1. q \in Request /\ q.pc = "generate_ir" /\ q.hash = req[r].hash
      BY <1>a, <1>p, RequestType DEF Request
    <3>2. req' = [req EXCEPT ![r] = q] /\ UNCHANGED <<schema, file, seen, torn, slipped>>
      BY <1>3, <2>2 DEF Lookup
    <3>. HIDE DEF q
    <3>. QED
      BY <1>a, <2>a, <3>1, <3>2, OneRequest
  <2>. QED
    BY <1>3, <2>1, <2>2 DEF Lookup
<1>4. CASE ReadRest(r)
  <2>a. schema \in seen[r] /\ ~Writing(r) /\ req[r].hash \in Hashes
    BY <1>a, <1>4 DEF ReadRest, At, Answered, Writing, TypeOK
  <2>b. file[req[r].hash] \in Bundle /\ req[r].bundle \in Bundle /\ Empty \in Bundle
    BY <1>a, <1>4, BundleType DEF ReadRest, FileOpened, Request
  <2>c. UNCHANGED <<schema, file, seen, torn, slipped>>
    BY <1>4 DEF ReadRest
  <2>1. CASE req' = [req EXCEPT ![r].pc = "hit", ![r].bundle.tail = file[req[r].hash].tail]
    <3>. DEFINE b == [req[r].bundle EXCEPT !.tail = file[req[r].hash].tail]
                q == [req[r] EXCEPT !.pc = "hit", !.bundle = b]
    <3>1. b \in Bundle
      BY <2>b DEF Bundle
    <3>2. q \in Request /\ q.pc = "hit" /\ q.hash = req[r].hash
      BY <1>a, <1>p, <3>1, RequestType DEF Request
    <3>3. req' = [req EXCEPT ![r] = q]
      BY <1>a, <2>1 DEF TypeOK, Request
    <3>. HIDE DEF q, b
    <3>. QED
      BY <1>a, <2>a, <2>c, <3>2, <3>3, OneRequest
  <2>2. CASE req' = [req EXCEPT ![r].pc = "generate_ir", ![r].bundle = Empty]
    <3>. DEFINE q == [req[r] EXCEPT !.pc = "generate_ir", !.bundle = Empty]
    <3>1. q \in Request /\ q.pc = "generate_ir" /\ q.hash = req[r].hash
      BY <1>a, <1>p, <2>b, RequestType DEF Request
    <3>2. req' = [req EXCEPT ![r] = q]
      BY <2>2
    <3>. HIDE DEF q
    <3>. QED
      BY <1>a, <2>a, <2>c, <3>1, <3>2, OneRequest
  <2>. QED
    BY <1>4, <2>1, <2>2 DEF ReadRest
<1>5. CASE GenerateIr(r)
  <2>1. CASE Fail(r)
    BY <1>5, <2>1, FailKeeps DEF GenerateIr, At, Writing
  <2>2. CASE ~Fail(r)
    <3>. DEFINE q == [req[r] EXCEPT !.pc = "build", !.ir = schema]
    <3>1. q \in Request /\ q.pc = "build" /\ q.ir = schema /\ q.hash = req[r].hash
      BY <1>a, <1>p, RequestType DEF Request
    <3>2. /\ req' = [req EXCEPT ![r] = q] /\ schema \in seen[r] /\ req[r].hash \in Hashes
          /\ UNCHANGED <<schema, file, seen, torn, slipped>> /\ ~Writing(r)
      BY <1>a, <1>5, <2>2 DEF GenerateIr, At, Writing, Answered, TypeOK
    <3>. HIDE DEF q
    <3>. QED
      BY <1>a, <3>1, <3>2, OneRequest
  <2>. QED
    BY <2>1, <2>2
<1>6. CASE Build(r)
  <2>1. CASE Fail(r)
    BY <1>6, <2>1, FailKeeps DEF Build, At, Writing
  <2>2. CASE ~Fail(r)
    <3>. DEFINE q == [req[r] EXCEPT !.pc = "put_open", !.bundle = Whole(req[r].ir)]
    <3>1. /\ schema \in seen[r] /\ req[r].hash \in Hashes /\ req[r].ir \in seen[r] /\ req[r].ir \in Hashes
          /\ ~Writing(r)
      BY <1>a, <1>6 DEF Build, At, Writing, Answered, TypeOK, CarriesIr
    <3>2. q \in Request /\ q.pc = "put_open" /\ q.ir = req[r].ir /\ q.hash = req[r].hash
          /\ q.bundle = Whole(q.ir)
      BY <1>a, <1>p, <3>1, BundleType, RequestType DEF Request
    <3>3. req' = [req EXCEPT ![r] = q] /\ UNCHANGED <<schema, file, seen, torn, slipped>>
      BY <1>6, <2>2 DEF Build
    <3>. HIDE DEF q
    <3>. QED
      BY <1>a, <3>1, <3>2, <3>3, OneRequest
  <2>. QED
    BY <2>1, <2>2
<1>7. CASE Abandon(r)
  <2>. DEFINE q == [req[r] EXCEPT !.pc = "gone"]
  <2>1. q \in Request /\ q.pc = "gone"
    BY <1>a, <1>p, RequestType DEF Request
  <2>2. req' = [req EXCEPT ![r] = q] /\ UNCHANGED <<schema, file, seen, torn, slipped>> /\ ~Writing(r)
    BY <1>7 DEF Abandon, Suspended, Writing
  <2>. HIDE DEF q
  <2>. QED
    BY <1>a, <2>1, <2>2, OneRequest
<1>. QED
  BY <1>1, <1>2, <1>3, <1>4, <1>5, <1>6, <1>7

\* put(): what the request carries stays, and of the files only that of its
\* hash changes.
LEMMA PutStep ==
  ASSUME IInv, NEW r \in Requests, PutOpen(r) \/ PutFails(r) \/ PutHead(r) \/ PutTail(r)
  PROVE  IInv'
<1>. USE DEF IInv
<1>a. /\ req[r] \in Request /\ req[r].hash \in Hashes /\ req[r].ir \in seen[r]
      /\ schema \in seen[r] /\ seen[r] \subseteq Hashes /\ req[r].bundle = Whole(req[r].ir)
      /\ req[r].pc \in {"put_open", "put_head", "put_tail"}
  BY DEF PutOpen, PutFails, PutHead, PutTail, At, Answered, Writing, TypeOK, CarriesIr
<1>b. PICK pc \in {"put_head", "put_tail", "generated"} : req' = [req EXCEPT ![r].pc = pc]
  BY DEF PutOpen, PutFails, PutHead, PutTail
<1>c. /\ pc \in Pcs /\ UNCHANGED <<schema, seen>>
      /\ torn \subseteq torn' /\ slipped \subseteq slipped'
      /\ torn' \subseteq Hashes /\ slipped' \subseteq Hashes
  BY <1>a DEF PutOpen, PutFails, PutHead, PutTail, Pcs, TypeOK
<1>d. /\ \A s \in Requests \ {r} : req'[s] = req[s]
      /\ req'[r] = [req[r] EXCEPT !.pc = pc] /\ req'[r] \in Request
      /\ req' \in [Requests -> Request]
  BY <1>a, <1>b, <1>c, RequestType DEF TypeOK
<1>e. req'[r].pc = pc /\ req'[r].hash = req[r].hash /\ req'[r].ir = req[r].ir
      /\ req'[r].bundle = req[r].bundle
  BY <1>a, <1>d DEF Request
<1>f. /\ PutHead(r) => req'[r].pc = "put_tail"
      /\ PutTail(r) \/ PutFails(r) => req'[r].pc = "generated"
  BY <1>a DEF PutHead, PutTail, PutFails, TypeOK, Request
<1>g. ASSUME PutOpen(r)
      PROVE  \/ /\ req'[r].pc = "put_head" /\ file' = [file EXCEPT ![req[r].hash] = Empty]
                /\ req[r].ir # req[r].hash => req[r].hash \in slipped'
             \/ req'[r].pc = "generated" /\ UNCHANGED <<file, slipped>>
  <2>1. CASE /\ req' = [req EXCEPT ![r].pc = "put_head"] /\ file' = [file EXCEPT ![req[r].hash] = Empty]
             /\ slipped' = IF req[r].ir = req[r].hash THEN slipped ELSE slipped \cup {req[r].hash}
    <3>1. req'[r].pc = "put_head"
      BY <1>a, <2>1 DEF TypeOK, Request
    <3>2. req[r].ir # req[r].hash => req[r].hash \in slipped'
      BY <2>1
    <3>. QED
      BY <2>1, <3>1, <3>2
  <2>2. CASE req' = [req EXCEPT ![r].pc = "generated"] /\ UNCHANGED <<file, slipped>>
    <3>1. req'[r].pc = "generated"
      BY <1>a, <2>2 DEF TypeOK, Request
    <3>. QED
      BY <2>2, <3>1
  <2>. QED
    BY <1>g, <2>1, <2>2 DEF PutOpen
<1>1. TypeOK'
  <2>1. file' \in [Hashes -> Bundle \cup {None}]
    <3>1. CASE PutOpen(r)
      BY <3>1, BundleType DEF PutOpen, TypeOK
    <3>2. CASE PutFails(r)
      BY <3>2 DEF PutFails, TypeOK
    <3>3. CASE PutHead(r) \/ PutTail(r)
      <4>1. file[req[r].hash] \in Bundle
        BY <1>a, <3>3 DEF PutHead, PutTail, FileOpened, At, Writing
      <4>2. req[r].bundle.head \in Hashes /\ req[r].bundle.tail \in Hashes
        BY <1>a DEF Whole
      <4>3. /\ [file[req[r].hash] EXCEPT !.head = req[r].bundle.head] \in Bundle
            /\ [file[req[r].hash] EXCEPT !.tail = req[r].bundle.tail] \in Bundle
        BY <4>1, <4>2 DEF Bundle
      <4>. QED
        BY <3>3, <4>3 DEF PutHead, PutTail, TypeOK
    <3>. QED
      BY <3>1, <3>2, <3>3
  <2>. QED
    BY <1>a, <1>c, <1>d, <1>e, <2>1 DEF TypeOK
<1>2. FileOpened'
  <2>1. \A s \in Requests :
          /\ Writing(s)' => Writing(s) \/ s = r
          /\ At(s, "read")' => At(s, "read")
    BY <1>d, <1>e DEF Writing, At
  <2>2. CASE PutOpen(r)
    <3>1. \A s \in Requests : req'[s].hash = req[s].hash
      BY <1>d, <1>e
    <3>2. \A h \in Hashes : file[h] \in Bundle => file'[h] \in Bundle
      BY <1>a, <1>g, <2>2, BundleType DEF TypeOK
    <3>4. \A s \in Requests : Writing(s) \/ At(s, "read") => req[s].hash \in Hashes
      BY DEF TypeOK, Writing, At
    <3>3. Writing(r)' => file'[req[r].hash] \in Bundle
      BY <1>a, <1>g, <2>2, BundleType DEF Writing, TypeOK
    <3>. QED
      BY <2>1, <3>1, <3>2, <3>3, <3>4 DEF FileOpened
  <2>3. CASE PutFails(r) \/ PutHead(r) \/ PutTail(r)
    <3>1. Writing(r)
      BY <2>3 DEF PutFails, PutHead, PutTail, At, Writing
    <3>2. \A h \in Hashes : file[h] \in Bundle => file'[h] \in Bundle
      <4>1. \A h \in Hashes : h # req[r].hash => file'[h] = file[h]
        BY <2>3 DEF PutFails, PutHead, PutTail, TypeOK
      <4>2. file[req[r].hash] \in Bundle => file'[req[r].hash] \in Bundle
        <5>1. CASE PutFails(r)
          BY <5>1 DEF PutFails
        <5>2. CASE PutHead(r) \/ PutTail(r)
          <6>1. req[r].bundle.head \in Hashes /\ req[r].bundle.tail \in Hashes
            BY <1>a DEF Whole
          <6>. QED
            BY <1>a, <5>2, <6>1 DEF PutHead, PutTail, TypeOK, Bundle
        <5>. QED
          BY <2>3, <5>1, <5>2
      <4>. QED
        BY <4>1, <4>2
    <3>3. \A s \in Requests : req'[s].hash = req[s].hash
      BY <1>d, <1>e
    <3>. QED
      BY <2>1, <3>1, <3>2, <3>3 DEF FileOpened, TypeOK, Writing, At
  <2>. QED
    BY <2>2, <2>3
<1>3. PiecesToCome'
  <2>. SUFFICES ASSUME NEW h \in Hashes, h \notin torn' \cup slipped', file'[h] \in Bundle
                PROVE  /\ file'[h].head = h \/ \E s \in Requests : At(s, "put_head")' /\ req'[s].hash = h
                       /\ file'[h].tail = h \/ \E s \in Requests : Writing(s)' /\ req'[s].hash = h
    BY DEF PiecesToCome
  <2>1. CASE req[r].hash # h
    <3>1. file'[h] = file[h] /\ h \notin torn \cup slipped
      BY <1>c, <2>1 DEF PutOpen, PutFails, PutHead, PutTail, TypeOK
    <3>2. \A s \in Requests : req[s].hash = h => req'[s] = req[s]
      BY <1>d, <2>1
    <3>. QED
      BY <3>1, <3>2 DEF PiecesToCome, At, Writing
  <2>2. CASE req[r].hash = h /\ PutOpen(r)
    <3>1. ~Writing(r)
      BY <2>2 DEF PutOpen, At, Writing
    <3>2. CASE req'[r].pc = "put_head"
      BY <1>e, <2>2, <3>2 DEF At, Writing
    <3>3. CASE UNCHANGED <<file, slipped>>
      <4>1. h \notin torn \cup slipped
        BY <1>c
      <4>2. \A s \in Requests : Writing(s) \/ At(s, "put_head") => req'[s] = req[s]
        BY <1>d, <3>1 DEF At, Writing
      <4>. QED
        BY <3>3, <4>1, <4>2 DEF PiecesToCome, At, Writing
    <3>. QED
      BY <1>g, <2>2, <3>2, <3>3
  <2>3. CASE req[r].hash = h /\ PutFails(r)
    BY <2>3 DEF PutFails
  <2>4. CASE req[r].hash = h /\ PutHead(r)
    <3>1. Writing(r) /\ req[r].ir = h /\ req[r].bundle.head = h
      BY <1>a, <1>c, <2>4 DEF PutHead, Writing, At, CarriesIr, Whole
    <3>2. file[h] \in Bundle /\ file' = [file EXCEPT ![h].head = h]
      BY <2>4, <3>1 DEF PutHead, FileOpened
    <3>3. file'[h].head = h
      BY <3>2 DEF TypeOK, Bundle
    <3>4. Writing(r)' /\ req'[r].hash = h
      BY <1>e, <1>f, <2>4 DEF Writing
    <3>. QED
      BY <3>3, <3>4
  <2>5. CASE req[r].hash = h /\ PutTail(r)
    <3>1. Writing(r) /\ At(r, "put_tail") /\ req[r].ir = h /\ req[r].bundle.tail = h
      BY <1>a, <1>c, <2>5 DEF PutTail, Writing, At, CarriesIr, Whole
    <3>2. file[h] \in Bundle /\ file' = [file EXCEPT ![h].tail = h]
      BY <2>5, <3>1 DEF PutTail, FileOpened
    <3>3. file'[h].tail = h /\ file'[h].head = file[h].head
      BY <3>2 DEF TypeOK, Bundle
    <3>4. h \notin torn \cup slipped
      BY <1>c
    <3>5. \A s \in Requests : At(s, "put_head") => req'[s] = req[s]
      BY <1>d, <3>1 DEF At
    <3>6. file[h].head = h \/ \E s \in Requests : At(s, "put_head") /\ req[s].hash = h
      BY <3>2, <3>4 DEF PiecesToCome
    <3>. QED
      BY <3>3, <3>5, <3>6 DEF At
  <2>. QED
    BY <2>1, <2>2, <2>3, <2>4, <2>5
<1>4. CarriesIr'
  <2>1. \A s \in Requests \ {r} : Writing(s)' => Writing(s)
    BY <1>d DEF Writing
  <2>2. Writing(r)' /\ req[r].ir # req[r].hash => req[r].hash \in slipped'
    <3>1. CASE PutOpen(r)
      BY <1>g, <3>1 DEF Writing
    <3>2. CASE PutFails(r) \/ PutTail(r)
      BY <1>f, <3>2 DEF Writing
    <3>3. CASE PutHead(r)
      BY <1>c, <3>3 DEF PutHead, At, Writing, CarriesIr
    <3>. QED
      BY <3>1, <3>2, <3>3
  <2>. QED
    BY <1>a, <1>c, <1>d, <1>e, <2>1, <2>2 DEF CarriesIr, At, Answered, Writing
<1>. QED
  BY <1>1, <1>2, <1>3, <1>4

\* The backend's schema changes under the requests in flight.
LEMMA ChangeSchemaKeeps == IInv /\ ChangeSchema => IInv'
<1>. SUFFICES ASSUME IInv, ChangeSchema PROVE IInv'
  OBVIOUS
<1>1. /\ schema' \in Hashes /\ UNCHANGED <<file, req, torn, slipped>>
      /\ \A r \in Requests : seen[r] \subseteq seen'[r] /\ seen'[r] \subseteq Hashes
      /\ \A r \in Requests : ~At(r, "idle") /\ ~Answered(r) => schema' \in seen'[r]
      /\ seen' \in [Requests -> SUBSET Hashes]
  BY DEF ChangeSchema, IInv, TypeOK
<1>2. TypeOK' /\ FileOpened' /\ PiecesToCome'
  BY <1>1 DEF IInv, TypeOK, FileOpened, PiecesToCome, Writing, At
<1>3. CarriesIr'
  BY <1>1 DEF IInv, CarriesIr, Writing, At, Answered
<1>. QED
  BY <1>2, <1>3 DEF IInv

\* Nobody writes or reads after a restart, and what was cut off is torn.
LEMMA RestartKeeps == IInv /\ Restart => IInv'
<1>. SUFFICES ASSUME IInv, Restart PROVE IInv'
  OBVIOUS
<1>1. /\ UNCHANGED <<schema, file, seen, slipped>>
      /\ torn \subseteq torn' /\ \A r \in Requests : Writing(r) => req[r].hash \in torn'
  BY DEF Restart
<1>2. \A r \in Requests : (req'[r] = req[r] /\ (At(r, "idle") \/ Answered(r))) \/ req'[r].pc = "gone"
  BY RequestType DEF Restart, IInv, Request
<1>3. \A r \in Requests : ~Writing(r)' /\ ~At(r, "read")'
  BY <1>2 DEF Writing, At, Answered
<1>4. TypeOK'
  <2>1. "gone" \in Pcs
    BY DEF Pcs
  <2>2. req' \in [Requests -> Request]
    BY <2>1, RequestType DEF Restart, IInv
  <2>3. torn' \subseteq Hashes
    BY DEF Restart, IInv, TypeOK, Writing
  <2>. QED
    BY <1>1, <1>2, <2>2, <2>3 DEF IInv, TypeOK
<1>5. FileOpened'
  BY <1>3 DEF FileOpened
<1>6. PiecesToCome'
  <2>1. \A r \in Requests : At(r, "put_head") => Writing(r)
    BY DEF At, Writing
  <2>. QED
    BY <1>1, <2>1 DEF IInv, PiecesToCome
<1>7. CarriesIr'
  BY <1>1, <1>2, <1>3 DEF IInv, CarriesIr, At, Answered
<1>. QED
  BY <1>4, <1>5, <1>6, <1>7 DEF IInv

\* Every step keeps the invariant.
LEMMA StepHolds == IInv /\ [Next]_vars => IInv'
<1>. SUFFICES ASSUME IInv, [Next]_vars PROVE IInv'
  OBVIOUS
<1>1. CASE UNCHANGED vars
  BY <1>1 DEF vars, IInv, TypeOK, FileOpened, PiecesToCome, CarriesIr, At, Answered, Writing
<1>2. CASE Next
  BY <1>2, QuietStep, PutStep, ChangeSchemaKeeps, RestartKeeps DEF Next
<1>. QED
  BY <1>1, <1>2

\* The inductive invariant holds.
LEMMA Invariance == Spec => []IInv
BY InitHolds, StepHolds, PTL DEF Spec

-----------------------------------------------------------------------------
(* Theorems *)

\* Schema, files and requests keep their types, for any number of requests.
THEOREM TypeCorrect == Spec => []TypeOK
<1>1. IInv => TypeOK
  BY DEF IInv
<1>. QED
  BY <1>1, Invariance, PTL

\* A file that nobody is writing is whole and of its hash, unless a write of it
\* was cut off or the schema changed under one.
THEOREM CacheIsExact == Spec => []CacheExact
<1>1. IInv => CacheExact
  <2>. SUFFICES ASSUME IInv, NEW h \in Hashes, file[h] # None, h \notin torn \cup slipped,
                       ~ \E r \in Requests : Writing(r) /\ req[r].hash = h
                PROVE  file[h] = Whole(h)
    BY DEF CacheExact
  <2>1. file[h] \in Bundle
    BY DEF IInv, TypeOK
  <2>2. file[h].head = h /\ file[h].tail = h
    BY <2>1 DEF IInv, PiecesToCome, At, Writing
  <2>. QED
    BY <2>1, <2>2 DEF Bundle, Whole
<1>. QED
  BY <1>1, Invariance, PTL

\* A generated bundle is whole and of a schema the backend had meanwhile.
THEOREM GeneratedIsOfItsTime == Spec => []GeneratedIsCurrent
<1>1. IInv => GeneratedIsCurrent
  BY DEF IInv, CarriesIr, GeneratedIsCurrent, At
<1>. QED
  BY <1>1, Invariance, PTL

===============================================================================
