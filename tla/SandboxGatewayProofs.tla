------------------------ MODULE SandboxGatewayProofs ------------------------
(***************************************************************************)
(* Proofs about SandboxGateway, for any number of requests, identifiers    *)
(* and runtimes.                                                           *)
(***************************************************************************)
EXTENDS SandboxGateway, FiniteSetTheorems, TLAPS

CreatedBy(r, i) == sandbox[r] = i /\ Answered(r, "201")
DestroyedBy(r, i) == sandbox[r] = i /\ Answered(r, "204")

\* A request by itself: what its phase says of its endpoint, its sandbox,
\* its process and its reply.
RequestInv ==
    \A r \in Requests :
        /\ phase[r] = "new" => sandbox[r] = NoId /\ kind[r] = "none" /\ told[r] = "nothing"
        /\ phase[r] \in {"new", "arrived", "checked"} => child[r] = "none"
        /\ phase[r] \in {"new", "arrived", "checked", "running"} => reply[r] = NoReply
        /\ phase[r] = "running" => child[r] # "none"
        /\ phase[r] \in {"checked", "running"} => kind[r] \in {"shell", "execute"}
        /\ kind[r] \in {"destroy", "shell", "execute"} => sandbox[r] \in Ids
        /\ kind[r] = "create" => told[r] = "nothing" /\ child[r] = "none"
        /\ Answered(r, "201") => kind[r] = "create" /\ sandbox[r] \in Ids
        /\ Answered(r, "204") => kind[r] = "destroy"
        /\ Answered(r, "200") => child[r] \notin {"none", "running"} /\ r \notin pipes
        /\ Answered(r, "200") => (reply[r].success <=> reply[r].exitCode = "0")
        /\ Answered(r, "404") => child[r] = "none"
        /\ child[r] # "none" => phase[r] # "new" /\ runtime[r] \in Runtimes \cup {"sh"}

\* Every identifier drawn has exactly one creation to its name, and its entry
\* is gone exactly if one destruction has been answered 204.
PoolInv ==
    \A i \in Ids :
        /\ entries[i] # "none" => i \in drawn
        /\ i \in drawn => \E r \in Requests : CreatedBy(r, i)
        /\ i \in drawn /\ entries[i] = "none" => \E r \in Requests : DestroyedBy(r, i)
        /\ \A r \in Requests : CreatedBy(r, i) => i \in drawn
        /\ \A r \in Requests : DestroyedBy(r, i) => i \in drawn /\ entries[i] = "none"
        /\ \A r, q \in Requests : CreatedBy(r, i) /\ CreatedBy(q, i) => r = q
        /\ \A r, q \in Requests : DestroyedBy(r, i) /\ DestroyedBy(q, i) => r = q

\* What clients know of a sandbox is true of the pool, and stays true while
\* a request made with that knowledge is under way.
KnowledgeInv ==
    /\ \A i \in Ids :
          /\ heard[i] # "nothing" => i \in drawn
          /\ heard[i] = "destroyed" => entries[i] = "none"
    /\ \A r \in Requests :
          /\ told[r] # "nothing" => sandbox[r] \in drawn
          /\ told[r] = "destroyed" =>
                /\ entries[sandbox[r]] = "none"
                /\ phase[r] \notin {"checked", "running"}
                /\ reply[r].status \in {"none", "404"}
                /\ child[r] = "none"
          /\ told[r] = "created" /\ Answered(r, "404") => entries[sandbox[r]] = "none"

IInv == TypeOK /\ RequestInv /\ PoolInv /\ KnowledgeInv

-----------------------------------------------------------------------------
\* The fields of the replies that the handlers make.
LEMMA ReplyType ==
    /\ \A s \in {"200", "201", "204", "400", "404"} :
          /\ Status(s) \in Replies
          /\ Status(s).status = s
    /\ \A how \in {"none", "running", "zero", "nonzero", "signalled"} :
          /\ ShellResult(how) \in Replies
          /\ ShellResult(how).status = "200"
          /\ ShellResult(how).success <=> ShellResult(how).exitCode = "0"
    /\ NoReply \in Replies /\ NoReply.status = "none"
BY DEF Status, NoReply, ShellResult, Replies

\* Every step is a step of one request.
LEMMA StepOfARequest ==
    ASSUME Next
    PROVE  \E r \in Requests :
              \/ \E rt \in Names : Arrives(r, "create", NoId, rt)
              \/ \E i \in Ids, k \in {"destroy", "shell", "execute"},
                    rt \in Names \cup {"none", "sh"} : Arrives(r, k, i, rt)
              \/ \E i \in Ids : CreateSandbox(r, i)
              \/ CreateRefused(r) \/ DestroySandbox(r) \/ LookUp(r)
              \/ StartChild(r) \/ StartFails(r) \/ Respond(r) \/ Deliver(r) \/ HangUp(r)
              \/ OutputFails(r) \/ PipesEnd(r)
              \/ \E how \in {"zero", "nonzero", "signalled"} : ChildEnds(r, how)
<1>1. PICK r \in Requests :
        \/ ArrivesAny(r) \/ Handler(r) \/ HangUp(r) \/ OutputFails(r) \/ PipesEnd(r)
        \/ \E how \in {"zero", "nonzero", "signalled"} : ChildEnds(r, how)
  BY DEF Next
<1>2. CASE ArrivesAny(r)
  BY <1>2, Zenon DEF ArrivesAny
<1>3. CASE Handler(r)
  BY <1>3, Zenon DEF Handler
<1>4. QED
  BY <1>1, <1>2, <1>3, Zenon

\* A delivered reply tells of a destruction, of a creation, or of nothing new.
LEMMA DeliverCases ==
    ASSUME NEW r \in Requests, Deliver(r)
    PROVE  /\ phase[r] = "done" /\ Goes(r, "answered")
           /\ UNCHANGED <<poolVars, requestVars, processVars, reply>>
           /\ \/ Answered(r, "204") /\ heard' = [heard EXCEPT ![sandbox[r]] = "destroyed"]
              \/ Answered(r, "201") /\ heard' = [heard EXCEPT ![sandbox[r]] = "created"]
              \/ heard' = heard
BY Zenon DEF Deliver, Answered

\* A handler that looks a sandbox up either goes on or answers 404.
LEMMA LookUpCases ==
    ASSUME NEW r \in Requests, LookUp(r)
    PROVE  /\ phase[r] = "arrived" /\ kind[r] \in {"shell", "execute"}
           /\ UNCHANGED <<poolVars, heard, requestVars, processVars>>
           /\ \/ entries[sandbox[r]] # "none" /\ Goes(r, "checked") /\ reply' = reply
              \/ entries[sandbox[r]] = "none" /\ Answers(r, Status("404"))
BY Zenon DEF LookUp, Handles, PoolContains

\* Every handler keeps the types of the pool, of the requests and of what
\* clients know.
LEMMA TypeStep ==
    ASSUME TypeOK, [Next]_vars
    PROVE  TypeOK'
<1>1. CASE UNCHANGED vars
  BY <1>1 DEF TypeOK, vars, poolVars, requestVars, processVars
<1>2. CASE Next
  <2>1. PICK r \in Requests :
              \/ \E rt \in Names : Arrives(r, "create", NoId, rt)
              \/ \E i \in Ids, k \in {"destroy", "shell", "execute"},
                    rt \in Names \cup {"none", "sh"} : Arrives(r, k, i, rt)
              \/ \E i \in Ids : CreateSandbox(r, i)
              \/ CreateRefused(r) \/ DestroySandbox(r) \/ LookUp(r)
              \/ StartChild(r) \/ StartFails(r) \/ Respond(r) \/ Deliver(r) \/ HangUp(r)
              \/ OutputFails(r) \/ PipesEnd(r)
              \/ \E how \in {"zero", "nonzero", "signalled"} : ChildEnds(r, how)
    BY <1>2, StepOfARequest
  <2>2. ASSUME NEW rt \in Names, Arrives(r, "create", NoId, rt) PROVE TypeOK'
    BY <2>2 DEF TypeOK, Arrives, Goes, Kinds, Heard, poolVars, processVars
  <2>3. ASSUME NEW i \in Ids, NEW k \in {"destroy", "shell", "execute"},
               NEW rt \in Names \cup {"none", "sh"}, Arrives(r, k, i, rt)
        PROVE  TypeOK'
    BY <2>3 DEF TypeOK, Arrives, Goes, Kinds, Heard, poolVars, processVars
  <2>4. ASSUME NEW i \in Ids, CreateSandbox(r, i) PROVE TypeOK'
    BY <2>4, ReplyType DEF TypeOK, CreateSandbox, PoolCreate, Answers, Goes, processVars
  <2>5. CASE CreateRefused(r)
    BY <2>5, ReplyType DEF TypeOK, CreateRefused, Answers, Goes, poolVars, requestVars, processVars
  <2>6. CASE DestroySandbox(r)
    BY <2>6, ReplyType DEF TypeOK, DestroySandbox, PoolRemove, Answers, Goes, requestVars, processVars
  <2>7. CASE LookUp(r)
    <3>1. /\ UNCHANGED <<poolVars, heard, requestVars, processVars>>
          /\ \/ Goes(r, "checked") /\ reply' = reply
             \/ Answers(r, Status("404"))
      BY <2>7, LookUpCases
    <3>2. QED
      BY <3>1, ReplyType DEF TypeOK, Answers, Goes, poolVars, requestVars, processVars
  <2>8. CASE StartChild(r)
    BY <2>8 DEF TypeOK, StartChild, Goes, poolVars, requestVars, processVars
  <2>9. CASE StartFails(r)
    BY <2>9, ReplyType DEF TypeOK, StartFails, Answers, Goes, poolVars, requestVars, processVars
  <2>10. CASE Respond(r)
    BY <2>10, ReplyType DEF TypeOK, Respond, Answers, Goes, poolVars, requestVars, processVars
  <2>11. CASE Deliver(r)
    <3>1. heard' \in [Ids -> Heard]
      BY <2>11, DeliverCases DEF TypeOK, Heard
    <3>2. QED
      BY <2>11, <3>1, DeliverCases DEF TypeOK, Goes, poolVars, requestVars, processVars
  <2>12. CASE HangUp(r)
    BY <2>12 DEF TypeOK, HangUp, Goes, poolVars, requestVars, processVars
  <2>13. ASSUME NEW how \in {"zero", "nonzero", "signalled"}, ChildEnds(r, how)
         PROVE  TypeOK'
    BY <2>13 DEF TypeOK, ChildEnds, poolVars, requestVars, processVars
  <2>14. CASE OutputFails(r)
    BY <2>14, ReplyType DEF TypeOK, OutputFails, Answers, Goes, poolVars, requestVars, processVars
  <2>15. CASE PipesEnd(r)
    BY <2>15 DEF TypeOK, PipesEnd, poolVars, requestVars, processVars
  <2>16. QED
    BY <2>1, <2>2, <2>3, <2>4, <2>5, <2>6, <2>7, <2>8, <2>9, <2>10, <2>11, <2>12, <2>13, <2>14, <2>15
<1>3. QED
  BY <1>1, <1>2

\* Every handler keeps the phases of its request in order and leaves the
\* other requests alone.
LEMMA RequestStep ==
    ASSUME TypeOK, RequestInv, [Next]_vars
    PROVE  RequestInv'
<1> USE DEF RequestInv, Answered
<1>1. CASE UNCHANGED vars
  BY <1>1 DEF vars, poolVars, requestVars, processVars
<1>2. CASE Next
  <2>1. PICK r \in Requests :
              \/ \E rt \in Names : Arrives(r, "create", NoId, rt)
              \/ \E i \in Ids, k \in {"destroy", "shell", "execute"},
                    rt \in Names \cup {"none", "sh"} : Arrives(r, k, i, rt)
              \/ \E i \in Ids : CreateSandbox(r, i)
              \/ CreateRefused(r) \/ DestroySandbox(r) \/ LookUp(r)
              \/ StartChild(r) \/ StartFails(r) \/ Respond(r) \/ Deliver(r) \/ HangUp(r)
              \/ OutputFails(r) \/ PipesEnd(r)
              \/ \E how \in {"zero", "nonzero", "signalled"} : ChildEnds(r, how)
    BY <1>2, StepOfARequest
  <2>2. ASSUME NEW rt \in Names, Arrives(r, "create", NoId, rt) PROVE RequestInv'
    BY <2>2, ReplyType DEF TypeOK, Arrives, Goes, processVars
  <2>3. ASSUME NEW i \in Ids, NEW k \in {"destroy", "shell", "execute"},
               NEW rt \in Names \cup {"none", "sh"}, Arrives(r, k, i, rt)
        PROVE  RequestInv'
    BY <2>3, ReplyType DEF TypeOK, Arrives, Goes, processVars
  <2>4. ASSUME NEW i \in Ids, CreateSandbox(r, i) PROVE RequestInv'
    BY <2>4, ReplyType DEF TypeOK, CreateSandbox, Handles, Answers, Goes, processVars
  <2>5. CASE CreateRefused(r)
    BY <2>5, ReplyType DEF TypeOK, CreateRefused, Handles, Answers, Goes, requestVars, processVars
  <2>6. CASE DestroySandbox(r)
    BY <2>6, ReplyType DEF TypeOK, DestroySandbox, Handles, Answers, Goes, requestVars, processVars
  <2>7. CASE LookUp(r)
    <3>1. /\ phase[r] = "arrived" /\ kind[r] \in {"shell", "execute"}
          /\ UNCHANGED <<requestVars, processVars>>
          /\ \/ Goes(r, "checked") /\ reply' = reply
             \/ Answers(r, Status("404"))
      BY <2>7, LookUpCases
    <3>2. QED
      BY <3>1, ReplyType DEF TypeOK, Answers, Goes, requestVars, processVars
  <2>8. CASE StartChild(r)
    BY <2>8, ReplyType DEF TypeOK, StartChild, Goes, requestVars, processVars
  <2>9. CASE StartFails(r)
    BY <2>9, ReplyType DEF TypeOK, StartFails, Answers, Goes, requestVars, processVars
  <2>10. CASE Respond(r)
    BY <2>10, ReplyType DEF TypeOK, Respond, Answers, Goes, requestVars, processVars
  <2>11. CASE Deliver(r)
    <3>1. phase[r] = "done" /\ Goes(r, "answered") /\ UNCHANGED <<requestVars, processVars, reply>>
      BY <2>11, DeliverCases
    <3>2. QED
      BY <3>1 DEF TypeOK, Goes, requestVars, processVars
  <2>12. CASE HangUp(r)
    BY <2>12 DEF TypeOK, HangUp, Goes, requestVars, processVars
  <2>13. ASSUME NEW how \in {"zero", "nonzero", "signalled"}, ChildEnds(r, how)
         PROVE  RequestInv'
    BY <2>13, ReplyType DEF TypeOK, ChildEnds, requestVars, processVars
  <2>14. CASE OutputFails(r)
    BY <2>14, ReplyType DEF TypeOK, OutputFails, Answers, Goes, requestVars, processVars
  <2>15. CASE PipesEnd(r)
    BY <2>15 DEF TypeOK, PipesEnd, requestVars, processVars
  <2>16. QED
    BY <2>1, <2>2, <2>3, <2>4, <2>5, <2>6, <2>7, <2>8, <2>9, <2>10, <2>11, <2>12, <2>13, <2>14, <2>15
<1>3. QED
  BY <1>1, <1>2

\* Steps that confirm neither a creation nor a destruction and leave the pool
\* alone keep PoolInv.
LEMMA PoolUntouched ==
    ASSUME PoolInv, UNCHANGED poolVars,
           \A q \in Requests, i \in Ids :
              (CreatedBy(q, i)' <=> CreatedBy(q, i)) /\ (DestroyedBy(q, i)' <=> DestroyedBy(q, i))
    PROVE  PoolInv'
BY DEF PoolInv, poolVars

\* Only create_sandbox and destroy_sandbox change the pool, each holding the
\* lock, and each confirms the change it made.
LEMMA PoolStep ==
    ASSUME TypeOK, RequestInv, PoolInv, [Next]_vars
    PROVE  PoolInv'
<1> USE DEF CreatedBy, DestroyedBy, Answered
<1>1. CASE UNCHANGED vars
  BY <1>1, PoolUntouched DEF vars, requestVars, processVars
<1>2. CASE Next
  <2>1. PICK r \in Requests :
              \/ \E rt \in Names : Arrives(r, "create", NoId, rt)
              \/ \E i \in Ids, k \in {"destroy", "shell", "execute"},
                    rt \in Names \cup {"none", "sh"} : Arrives(r, k, i, rt)
              \/ \E i \in Ids : CreateSandbox(r, i)
              \/ CreateRefused(r) \/ DestroySandbox(r) \/ LookUp(r)
              \/ StartChild(r) \/ StartFails(r) \/ Respond(r) \/ Deliver(r) \/ HangUp(r)
              \/ OutputFails(r) \/ PipesEnd(r)
              \/ \E how \in {"zero", "nonzero", "signalled"} : ChildEnds(r, how)
    BY <1>2, StepOfARequest
  <2>2. ASSUME NEW k, NEW i, NEW rt, Arrives(r, k, i, rt) PROVE PoolInv'
    BY <2>2, ReplyType, PoolUntouched DEF TypeOK, RequestInv, Arrives
  <2>3. ASSUME NEW i \in Ids, CreateSandbox(r, i) PROVE PoolInv'
    <3>1. /\ \A q \in Requests, j \in Ids :
                CreatedBy(q, j)' <=> (q = r /\ j = i) \/ (q # r /\ CreatedBy(q, j))
          /\ \A q \in Requests, j \in Ids : DestroyedBy(q, j)' <=> (q # r /\ DestroyedBy(q, j))
          /\ \A j \in Ids : ~ CreatedBy(r, j) /\ ~ DestroyedBy(r, j)
      BY <2>3, ReplyType DEF TypeOK, RequestInv, CreateSandbox, Handles, Answers
    <3>2. /\ i \notin drawn /\ drawn' = drawn \cup {i}
          /\ entries'[i] # "none" /\ \A j \in Ids \ {i} : entries'[j] = entries[j]
      BY <2>3, GatewayAssumption DEF TypeOK, CreateSandbox, PoolCreate
    <3>3. QED
      BY <3>1, <3>2 DEF PoolInv
  <2>4. CASE CreateRefused(r)
    BY <2>4, ReplyType, PoolUntouched
       DEF TypeOK, RequestInv, CreateRefused, Handles, Answers, requestVars, processVars
  <2>5. CASE DestroySandbox(r)
    <3>1. /\ sandbox[r] \in Ids /\ \A j \in Ids : ~ CreatedBy(r, j) /\ ~ DestroyedBy(r, j)
          /\ drawn' = drawn /\ UNCHANGED sandbox
          /\ entries' = [entries EXCEPT ![sandbox[r]] = "none"]
      BY <2>5, ReplyType DEF RequestInv, DestroySandbox, PoolRemove, Handles, requestVars, processVars
    <3>2. CASE entries[sandbox[r]] # "none"
      <4>1. /\ \A q \in Requests, j \in Ids : CreatedBy(q, j)' <=> CreatedBy(q, j)
            /\ \A q \in Requests, j \in Ids :
                  DestroyedBy(q, j)' <=> (q = r /\ j = sandbox[r]) \/ (q # r /\ DestroyedBy(q, j))
        BY <2>5, <3>1, <3>2, ReplyType DEF TypeOK, DestroySandbox, PoolContains, Answers
      <4>2. QED
        BY <3>1, <3>2, <4>1 DEF PoolInv, TypeOK
    <3>3. CASE entries[sandbox[r]] = "none"
      <4>1. UNCHANGED poolVars
        BY <3>1, <3>3 DEF TypeOK, poolVars
      <4>2. \A q \in Requests, j \in Ids :
              (CreatedBy(q, j)' <=> CreatedBy(q, j)) /\ (DestroyedBy(q, j)' <=> DestroyedBy(q, j))
        BY <2>5, <3>1, <3>3, ReplyType DEF TypeOK, DestroySandbox, PoolContains, Answers
      <4>3. QED
        BY <4>1, <4>2, PoolUntouched
    <3>4. QED
      BY <3>2, <3>3
  <2>6. CASE LookUp(r)
    <3>1. /\ phase[r] = "arrived" /\ UNCHANGED <<poolVars, requestVars>>
          /\ reply' = reply \/ Answers(r, Status("404"))
      BY <2>6, LookUpCases
    <3>2. QED
      BY <3>1, ReplyType, PoolUntouched DEF TypeOK, RequestInv, Answers, requestVars, processVars
  <2>7. CASE \/ StartChild(r) \/ HangUp(r) \/ PipesEnd(r)
             \/ \E how \in {"zero", "nonzero", "signalled"} : ChildEnds(r, how)
    BY <2>7, PoolUntouched DEF StartChild, HangUp, PipesEnd, ChildEnds, requestVars, processVars
  <2>8. CASE StartFails(r)
    BY <2>8, ReplyType, PoolUntouched DEF TypeOK, RequestInv, StartFails, Answers, requestVars, processVars
  <2>9. CASE Respond(r)
    BY <2>9, ReplyType, PoolUntouched DEF TypeOK, RequestInv, Respond, Answers, requestVars, processVars
  <2>10. CASE Deliver(r)
    <3>1. UNCHANGED <<poolVars, requestVars, reply>>
      BY <2>10, DeliverCases
    <3>2. QED
      BY <3>1, PoolUntouched DEF requestVars, processVars
  <2>11. CASE OutputFails(r)
    BY <2>11, ReplyType, PoolUntouched DEF TypeOK, RequestInv, OutputFails, Answers, requestVars, processVars
  <2>12. QED
    BY <2>1, <2>2, <2>3, <2>4, <2>5, <2>6, <2>7, <2>8, <2>9, <2>10, <2>11
<1>3. QED
  BY <1>1, <1>2

\* What clients have heard and were told stays true: an identifier is never
\* drawn again, and no handler puts back an entry that was removed.
LEMMA KnowledgeStep ==
    ASSUME IInv, [Next]_vars
    PROVE  KnowledgeInv'
<1> USE DEF IInv, KnowledgeInv, Answered
<1>1. CASE UNCHANGED vars
  BY <1>1 DEF vars, poolVars, requestVars, processVars
<1>2. CASE Next
  <2>1. PICK r \in Requests :
              \/ \E rt \in Names : Arrives(r, "create", NoId, rt)
              \/ \E i \in Ids, k \in {"destroy", "shell", "execute"},
                    rt \in Names \cup {"none", "sh"} : Arrives(r, k, i, rt)
              \/ \E i \in Ids : CreateSandbox(r, i)
              \/ CreateRefused(r) \/ DestroySandbox(r) \/ LookUp(r)
              \/ StartChild(r) \/ StartFails(r) \/ Respond(r) \/ Deliver(r) \/ HangUp(r)
              \/ OutputFails(r) \/ PipesEnd(r)
              \/ \E how \in {"zero", "nonzero", "signalled"} : ChildEnds(r, how)
    BY <1>2, StepOfARequest
  <2>2. ASSUME NEW rt \in Names, Arrives(r, "create", NoId, rt) PROVE KnowledgeInv'
    BY <2>2, ReplyType, GatewayAssumption DEF TypeOK, RequestInv, Arrives, Goes, poolVars, processVars
  <2>3. ASSUME NEW i \in Ids, NEW k \in {"destroy", "shell", "execute"},
               NEW rt \in Names \cup {"none", "sh"}, Arrives(r, k, i, rt)
        PROVE  KnowledgeInv'
    BY <2>3, ReplyType, GatewayAssumption DEF TypeOK, RequestInv, Arrives, Goes, poolVars, processVars
  <2>4. ASSUME NEW i \in Ids, CreateSandbox(r, i) PROVE KnowledgeInv'
    <3>1. i \notin drawn /\ drawn' = drawn \cup {i} /\ entries' = [entries EXCEPT ![i] = runtime[r]]
      BY <2>4 DEF CreateSandbox, PoolCreate
    <3>2. told[r] = "nothing" /\ sandbox' = [sandbox EXCEPT ![r] = i] /\ UNCHANGED <<heard, told, processVars>>
      BY <2>4 DEF RequestInv, CreateSandbox, Handles
    <3>3. phase' = [phase EXCEPT ![r] = "done"] /\ reply' = [reply EXCEPT ![r] = Status("201")]
      BY <2>4 DEF CreateSandbox, Answers, Goes
    <3>4. QED
      BY <3>1, <3>2, <3>3 DEF TypeOK, processVars
  <2>5. CASE CreateRefused(r)
    BY <2>5, ReplyType
       DEF TypeOK, RequestInv, CreateRefused, Handles, Answers, Goes, poolVars, requestVars, processVars
  <2>6. CASE DestroySandbox(r)
    <3>1. /\ sandbox[r] \in Ids /\ drawn' = drawn /\ UNCHANGED <<heard, sandbox, told, processVars>>
          /\ entries' = [entries EXCEPT ![sandbox[r]] = "none"]
      BY <2>6 DEF RequestInv, DestroySandbox, PoolRemove, Handles, requestVars, processVars
    <3>2. /\ phase' = [phase EXCEPT ![r] = "done"]
          /\ reply' = [reply EXCEPT ![r] = Status(IF PoolContains(sandbox[r]) THEN "204" ELSE "404")]
      BY <2>6 DEF DestroySandbox, Answers, Goes
    <3>3. QED
      BY <3>1, <3>2, ReplyType DEF TypeOK, PoolContains, processVars
  <2>7. CASE LookUp(r)
    <3>1. /\ UNCHANGED <<poolVars, heard, requestVars, processVars>>
          /\ \/ entries[sandbox[r]] # "none" /\ Goes(r, "checked") /\ reply' = reply
             \/ entries[sandbox[r]] = "none" /\ Answers(r, Status("404"))
      BY <2>7, LookUpCases
    <3>2. QED
      BY <3>1, ReplyType DEF TypeOK, Answers, Goes, poolVars, requestVars, processVars
  <2>8. CASE StartChild(r)
    BY <2>8 DEF TypeOK, StartChild, Goes, poolVars, requestVars, processVars
  <2>9. CASE StartFails(r)
    BY <2>9, ReplyType DEF TypeOK, StartFails, Answers, Goes, poolVars, requestVars, processVars
  <2>10. CASE Respond(r)
    BY <2>10, ReplyType DEF TypeOK, Respond, Answers, Goes, poolVars, requestVars, processVars
  <2>11. CASE Deliver(r)
    <3>1. /\ phase[r] = "done" /\ Goes(r, "answered") /\ UNCHANGED <<poolVars, requestVars, processVars, reply>>
          /\ \/ Answered(r, "204") /\ heard' = [heard EXCEPT ![sandbox[r]] = "destroyed"]
             \/ Answered(r, "201") /\ heard' = [heard EXCEPT ![sandbox[r]] = "created"]
             \/ heard' = heard
      BY <2>11, DeliverCases
    <3>2. \A i \in Ids : heard'[i] # heard[i] =>
             /\ i \in drawn
             /\ heard'[i] = "destroyed" => entries[i] = "none"
      BY <3>1 DEF TypeOK, RequestInv, PoolInv, CreatedBy, DestroyedBy
    <3>3. QED
      BY <3>1, <3>2 DEF TypeOK, Goes, poolVars, requestVars, processVars
  <2>12. CASE HangUp(r)
    BY <2>12 DEF TypeOK, HangUp, Goes, poolVars, requestVars, processVars
  <2>13. ASSUME NEW how \in {"zero", "nonzero", "signalled"}, ChildEnds(r, how)
         PROVE  KnowledgeInv'
    BY <2>13 DEF TypeOK, ChildEnds, poolVars, requestVars, processVars
  <2>14. CASE OutputFails(r)
    BY <2>14, ReplyType DEF TypeOK, RequestInv, OutputFails, Answers, Goes, poolVars, requestVars, processVars
  <2>15. CASE PipesEnd(r)
    BY <2>15 DEF TypeOK, PipesEnd, poolVars, requestVars, processVars
  <2>16. QED
    BY <2>1, <2>2, <2>3, <2>4, <2>5, <2>6, <2>7, <2>8, <2>9, <2>10, <2>11, <2>12, <2>13, <2>14, <2>15
<1>3. QED
  BY <1>1, <1>2

\* The gateway keeps its inductive invariant, however many requests overlap.
THEOREM Invariance == Spec => []IInv
<1>1. Init => IInv
  BY ReplyType, GatewayAssumption
     DEF Init, IInv, TypeOK, RequestInv, PoolInv, KnowledgeInv, CreatedBy, DestroyedBy,
         Answered, Heard
<1>2. IInv /\ [Next]_vars => IInv'
  BY TypeStep, RequestStep, PoolStep, KnowledgeStep DEF IInv
<1>3. QED
  BY <1>1, <1>2, PTL DEF Spec

\* The pool, the requests and what clients know stay of their types.
THEOREM TypeCorrect == Spec => []TypeOK
<1>1. IInv => TypeOK
  BY DEF IInv
<1>2. QED
  BY <1>1, Invariance, PTL

\* Of any number of concurrent DELETEs of a sandbox one is confirmed.  The
\* confirmations, and the creations, of one identifier are sets of at most
\* one request.
THEOREM OneDestruction == Spec => []OneDestroyWins
<1>1. IInv => OneDestroyWins
  <2> SUFFICES ASSUME IInv, NEW i \in Ids
               PROVE  Cardinality({r \in Requests : DestroyedBy(r, i)})
                        <= Cardinality({r \in Requests : CreatedBy(r, i)})
    BY DEF OneDestroyWins, DestroyedBy, CreatedBy
  <2>1. CASE {r \in Requests : DestroyedBy(r, i)} = {}
    <3>1. \/ {r \in Requests : CreatedBy(r, i)} = {}
          \/ \E q \in Requests : {r \in Requests : CreatedBy(r, i)} = {q}
      BY DEF IInv, PoolInv
    <3>2. Cardinality({r \in Requests : CreatedBy(r, i)}) \in {0, 1}
      BY <3>1, FS_EmptySet, FS_Singleton
    <3>3. QED
      BY <2>1, <3>2, FS_EmptySet
  <2>2. CASE {r \in Requests : DestroyedBy(r, i)} # {}
    <3>1. \E q \in Requests : {r \in Requests : DestroyedBy(r, i)} = {q}
      BY <2>2 DEF IInv, PoolInv
    <3>2. \E q \in Requests : {r \in Requests : CreatedBy(r, i)} = {q}
      BY <2>2 DEF IInv, PoolInv
    <3>3. QED
      BY <3>1, <3>2, FS_Singleton
  <2>3. QED
    BY <2>1, <2>2
<1>2. QED
  BY <1>1, Invariance, PTL

\* A request that arrives after its sender could know that the sandbox is
\* gone runs nothing and gets nothing but 404.
THEOREM LateRequests == Spec => []LateRequestsRefused
<1>1. IInv => LateRequestsRefused
  BY DEF IInv, KnowledgeInv, LateRequestsRefused
<1>2. QED
  BY <1>1, Invariance, PTL

\* A 404 for a sandbox that a client was told of is some other request's 204.
THEOREM RefusalsJustified == Spec => []RefusedOnlyIfDestroyed
<1>1. IInv => RefusedOnlyIfDestroyed
  BY DEF IInv, TypeOK, PoolInv, KnowledgeInv, DestroyedBy, Answered, RefusedOnlyIfDestroyed
<1>2. QED
  BY <1>1, Invariance, PTL

\* A 200 reports the exit of a process that has ended and whose output has
\* been read to the end; a 404, and an unsupported runtime, had no process.
THEOREM TruthfulReplies == Spec => []RepliesTellTheOutcome
<1>1. IInv => RepliesTellTheOutcome
  BY DEF IInv, RequestInv, RepliesTellTheOutcome
<1>2. QED
  BY <1>1, Invariance, PTL
=============================================================================
