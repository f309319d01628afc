---------------------------- MODULE PublishProofs ----------------------------
(***************************************************************************)
(* Theorems about Publish, for every number of requests, operators, files, *)
(* option sets and faults.                                                 *)
(***************************************************************************)
EXTENDS Publish, FiniteSetTheorems, TLAPS

Locals == [pc : ReqPcs, opts : Options \cup {None}, next : Files, answer : Answers]
OpLocals == [pc : OpPcs, act : {"none", "reconcile", "reset"},
             opts : Options \cup {None}, answer : Answers, did : {"nothing", "confirmed", "reset"}]
Rows == {NoRow} \cup [state : {"pending", "succeeded", "unknown"}, opts : Options]

\* A request that started carries options.
Started == \A r \in Requests : req[r].pc # "idle" => req[r].opts \in Options

TInv == TypeOK /\ Started

-----------------------------------------------------------------------------
(* What the helpers do to a thread's locals.                               *)

\* GoTo moves the request's pc and nothing else.
LEMMA GoToEffect ==
    ASSUME req \in [Requests -> Locals], NEW r \in Requests, NEW p \in ReqPcs, GoTo(r, p)
    PROVE  /\ req' \in [Requests -> Locals]
           /\ req'[r].pc = p /\ req'[r].opts = req[r].opts
           /\ req'[r].next = req[r].next /\ req'[r].answer = req[r].answer
           /\ \A s \in Requests \ {r} : req'[s] = req[s]
  BY DEF GoTo, Locals

\* Answer ends the request with an answer.
LEMMA AnswerEffect ==
    ASSUME req \in [Requests -> Locals], NEW r \in Requests, NEW a \in Answers, Answer(r, a)
    PROVE  /\ req' \in [Requests -> Locals]
           /\ req'[r].pc = "done" /\ req'[r].opts = req[r].opts
           /\ req'[r].next = req[r].next /\ req'[r].answer = a
           /\ \A s \in Requests \ {r} : req'[s] = req[s]
  BY DEF Answer, Locals, ReqPcs

\* OpGoTo moves the operator's pc and nothing else.
LEMMA OpGoToEffect ==
    ASSUME op \in [Operators -> OpLocals], NEW o \in Operators, NEW p \in OpPcs, OpGoTo(o, p)
    PROVE  /\ op' \in [Operators -> OpLocals]
           /\ op'[o].pc = p /\ op'[o].opts = op[o].opts /\ op'[o].act = op[o].act
           /\ \A q \in Operators \ {o} : op'[q] = op[q]
  BY DEF OpGoTo, OpLocals

\* OpAnswer ends the operator's call with an answer.
LEMMA OpAnswerEffect ==
    ASSUME op \in [Operators -> OpLocals], NEW o \in Operators, NEW a \in Answers, OpAnswer(o, a)
    PROVE  /\ op' \in [Operators -> OpLocals]
           /\ op'[o].pc = "done" /\ op'[o].opts = op[o].opts /\ op'[o].act = op[o].act
           /\ \A q \in Operators \ {o} : op'[q] = op[q]
  BY DEF OpAnswer, OpLocals, OpPcs

\* Confirm moves the operator on and records what it did.
LEMMA ConfirmEffect ==
    ASSUME op \in [Operators -> OpLocals], NEW o \in Operators,
           op' = [op EXCEPT ![o].pc = "audit", ![o].did = "confirmed"]
    PROVE  /\ op' \in [Operators -> OpLocals] /\ op'[o].pc = "audit"
           /\ \A q \in Operators \ {o} : op'[q] = op[q]
  BY DEF OpLocals, OpPcs

\* Reset ends the operator's call and records what it did.
LEMMA ResetEffect ==
    ASSUME op \in [Operators -> OpLocals], NEW o \in Operators,
           op' = [op EXCEPT ![o].pc = "done", ![o].answer = "200", ![o].did = "reset"]
    PROVE  /\ op' \in [Operators -> OpLocals] /\ op'[o].pc = "done"
           /\ \A q \in Operators \ {o} : op'[q] = op[q]
<1> DEFINE x1 == [op EXCEPT ![o].pc = "done"]
<1> DEFINE x2 == [x1 EXCEPT ![o].answer = "200"]
<1> DEFINE x3 == [x2 EXCEPT ![o].did = "reset"]
<1>1. x1 \in [Operators -> OpLocals] /\ x1[o].pc = "done" /\ \A q \in Operators \ {o} : x1[q] = op[q]
  BY DEF OpLocals, OpPcs
<1>2. op' = x3
  OBVIOUS
<1> HIDE DEF x1
<1>3. x2 \in [Operators -> OpLocals] /\ x2[o].pc = "done" /\ \A q \in Operators \ {o} : x2[q] = op[q]
  <2>1. "200" \in Answers
    BY DEF Answers
  <2>. QED BY <1>1, <2>1 DEF OpLocals
<1> HIDE DEF x2
<1>4. x3 \in [Operators -> OpLocals] /\ x3[o].pc = "done" /\ \A q \in Operators \ {o} : x3[q] = op[q]
  BY <1>3 DEF OpLocals
<1> HIDE DEF x3
<1>. QED BY <1>2, <1>4

\* ReadReceipt remembers the row it read and moves the operator on.
LEMMA OpenEffect ==
    ASSUME op \in [Operators -> OpLocals], NEW o \in Operators, NEW p \in OpPcs,
           NEW act \in {"reconcile", "reset"}, NEW x \in Options,
           op' = [op EXCEPT ![o].act = act, ![o].opts = x, ![o].pc = p]
    PROVE  /\ op' \in [Operators -> OpLocals] /\ op'[o].pc = p
           /\ \A q \in Operators \ {o} : op'[q] = op[q]
<1> DEFINE x1 == [op EXCEPT ![o].act = act]
<1> DEFINE x2 == [x1 EXCEPT ![o].opts = x]
<1> DEFINE x3 == [x2 EXCEPT ![o].pc = p]
<1>1. x1 \in [Operators -> OpLocals] /\ \A q \in Operators \ {o} : x1[q] = op[q]
  BY DEF OpLocals, OpPcs
<1>2. op' = x3
  OBVIOUS
<1> HIDE DEF x1
<1>3. x2 \in [Operators -> OpLocals] /\ \A q \in Operators \ {o} : x2[q] = op[q]
  BY <1>1 DEF OpLocals
<1> HIDE DEF x2
<1>4. x3 \in [Operators -> OpLocals] /\ x3[o].pc = p /\ \A q \in Operators \ {o} : x3[q] = op[q]
  BY <1>3 DEF OpLocals
<1> HIDE DEF x3
<1>. QED BY <1>2, <1>4

\* Faults are counted within the bound.
LEMMA FaultsBounded ==
    ASSUME faults \in 0..MaxFaults, NEW k, Fault(k) \/ NoFault
    PROVE  faults' \in 0..MaxFaults
  BY NumbersAssumption DEF Fault, NoFault

-----------------------------------------------------------------------------
(* The shapes a step can have, as the invariants see them.                 *)

\* A request's step moves that request only; it touches the row to claim it or,
\* as its owner, to resolve it.
ReqFrame(r) ==
    /\ req' \in [Requests -> Locals]
    /\ req'[r].opts \in Options
    /\ \A s \in Requests \ {r} : req'[s] = req[s]
    /\ req[r].pc # "idle" => req'[r].opts = req[r].opts
    /\ req'[r].pc # "idle"
    /\ op' = op /\ run' = run /\ audited' = audited
    /\ faults' \in 0..MaxFaults

Claims(r) ==
    /\ req[r].pc = "claim" /\ receipt = NoRow
    /\ receipt' = [state |-> "pending", opts |-> req[r].opts]
    /\ req'[r].pc = IF Target = "local" THEN "recheck" ELSE "private"

Resolves(r, s) ==
    /\ req[r].pc \in {"mark", "failed"} /\ Mine(r)
    /\ s = "succeeded" => req[r].pc = "mark"
    /\ receipt' = [receipt EXCEPT !.state = s]
    /\ req'[r].pc = "done"

Keeps(r) ==
    /\ receipt' = receipt
    /\ req'[r].pc \in Owning => req[r].pc \in Owning

ReqShape(r) ==
    /\ ReqFrame(r)
    /\ Claims(r) \/ Resolves(r, "succeeded") \/ Resolves(r, "unknown") \/ Keeps(r)

\* Every step of a request has one of these shapes.
LEMMA RequestShape ==
    ASSUME TInv, NEW r \in Requests, Start(r) \/ Request(r)
    PROVE  ReqShape(r)
<1>1. req \in [Requests -> Locals] /\ faults \in 0..MaxFaults /\ receipt \in Rows
  BY DEF TInv, TypeOK, Locals, Rows
<1>2. req[r].pc # "idle" => req[r].opts \in Options
  BY DEF TInv, Started
<1>3. \A p \in ReqPcs : GoTo(r, p) =>
          /\ req' \in [Requests -> Locals] /\ req'[r].pc = p /\ req'[r].opts = req[r].opts
          /\ \A s \in Requests \ {r} : req'[s] = req[s]
  BY <1>1, GoToEffect
<1>4. \A a \in Answers : Answer(r, a) =>
          /\ req' \in [Requests -> Locals] /\ req'[r].pc = "done" /\ req'[r].opts = req[r].opts
          /\ \A s \in Requests \ {r} : req'[s] = req[s]
  BY <1>1, AnswerEffect
<1>5. \A k : Fault(k) \/ NoFault => faults' \in 0..MaxFaults
  BY <1>1, FaultsBounded
<1>6. "200" \in Answers /\ "409" \in Answers /\ "502" \in Answers /\ ReceiptAnswer(req[r].opts) \in Answers
  BY DEF Answers, ReceiptAnswer
<1>a. CASE Start(r)
  <2>1. PICK o \in Options : req' = [req EXCEPT ![r].pc = "lookup", ![r].opts = o]
    BY <1>a DEF Start
  <2>2. /\ req' \in [Requests -> Locals] /\ req'[r].pc = "lookup" /\ req'[r].opts = o
        /\ \A s \in Requests \ {r} : req'[s] = req[s]
    BY <1>1, <2>1 DEF Locals, ReqPcs
  <2>3. req[r].pc = "idle" /\ UNCHANGED <<run, receipt, audited, vis, landed, op, faults>>
    BY <1>a DEF Start, At
  <2>. QED BY <2>2, <2>3, <1>1 DEF ReqShape, ReqFrame, Keeps, Owning
<1>b. CASE Lookup(r)
  BY <1>b, <1>1, <1>2, <1>3, <1>4, <1>5, <1>6
     DEF Lookup, At, ReqShape, ReqFrame, Keeps, Owning, ReqPcs
<1>c. CASE CheckReady(r)
  BY <1>c, <1>1, <1>2, <1>3, <1>4, <1>6
     DEF CheckReady, At, ReqShape, ReqFrame, Keeps, Owning, ReqPcs
<1>d. CASE ProbeVisibility(r)
  BY <1>d, <1>1, <1>2, <1>3, <1>4, <1>5, <1>6
     DEF ProbeVisibility, At, ReqShape, ReqFrame, Keeps, Owning, ReqPcs
<1>e. CASE Claim(r)
  BY <1>e, <1>1, <1>2, <1>3, <1>4, <1>5, <1>6
     DEF Claim, At, ReqShape, ReqFrame, Keeps, Claims, Owning, ReqPcs
<1>f. CASE Recheck(r)
  BY <1>f, <1>1, <1>2, <1>3, <1>4, <1>5, <1>6
     DEF Recheck, At, ReqShape, ReqFrame, Keeps, Owning, ReqPcs
<1>g. CASE CheckPrivate(r)
  BY <1>g, <1>1, <1>2, <1>3, <1>5
     DEF CheckPrivate, At, ReqShape, ReqFrame, Keeps, Owning, ReqPcs
<1>h. CASE CreateDestination(r)
  BY <1>h, <1>1, <1>2, <1>3, <1>5
     DEF CreateDestination, At, ReqShape, ReqFrame, Keeps, Owning, ReqPcs
<1>i. CASE Upload(r)
  <2>1. /\ req[r].pc = "upload"
        /\ UNCHANGED <<run, receipt, audited, op>>
        /\ Fault("remote") \/ NoFault
        /\ \/ GoTo(r, "failed") \/ GoTo(r, "mark")
           \/ NFiles \notin Batch(r) /\ req' = [req EXCEPT ![r].next = @ + 1]
    BY <1>i DEF Upload, At
  <2>2. /\ req' \in [Requests -> Locals] /\ req'[r].pc \in {"failed", "mark", "upload"}
        /\ req'[r].opts = req[r].opts
        /\ \A s \in Requests \ {r} : req'[s] = req[s]
    <3>1. CASE GoTo(r, "failed") \/ GoTo(r, "mark")
      BY <3>1, <1>3 DEF ReqPcs
    <3>2. CASE NFiles \notin Batch(r) /\ req' = [req EXCEPT ![r].next = @ + 1]
      <4>1. req[r].next \in Files /\ req[r].next + 1 \in Files
        BY <3>2, <1>1, NumbersAssumption DEF Locals, Files, Batch
      <4>. QED BY <4>1, <3>2, <2>1, <1>1 DEF Locals
    <3>. QED BY <3>1, <3>2, <2>1
  <2>. QED BY <2>1, <2>2, <1>1, <1>2, <1>5 DEF ReqShape, ReqFrame, Keeps, Owning
<1>j. CASE MarkSucceeded(r)
  BY <1>j, <1>1, <1>2, <1>3, <1>4, <1>5, <1>6
     DEF MarkSucceeded, At, ReqShape, ReqFrame, Keeps, Resolves, Owning, ReqPcs
<1>k. CASE MarkUnknown(r)
  BY <1>k, <1>1, <1>2, <1>3, <1>4, <1>5, <1>6
     DEF MarkUnknown, At, ReqShape, ReqFrame, Keeps, Resolves, Owning, ReqPcs
<1>. QED BY <1>a, <1>b, <1>c, <1>d, <1>e, <1>f, <1>g, <1>h, <1>i, <1>j, <1>k DEF Request

\* An operator's step moves that operator only; it starts from a row nobody is
\* uploading for, one call at a time, when operators keep to that.
Working == {"probe", "confirm", "audit", "reset"}

OpFrame(o) ==
    /\ op' \in [Operators -> OpLocals]
    /\ \A q \in Operators \ {o} : op'[q] = op[q]
    /\ req' = req /\ run' = run /\ vis' = vis /\ landed' = landed
    /\ audited' \in Nat /\ faults' \in 0..MaxFaults

Opens(o) ==
    /\ op[o].pc = "idle" /\ receipt' = receipt
    /\ op'[o].pc \in Working =>
          /\ receipt # NoRow
          /\ "not_pending" \in Discipline => receipt.state # "pending"
          /\ "one_at_a_time" \in Discipline => \A q \in Operators : op[q].pc \in {"idle", "done"}
          /\ "reconcile" \notin Actions => op'[o].pc = "reset"

Confirms(o) ==
    /\ op[o].pc = "confirm" /\ op'[o].pc = "audit"
    /\ receipt.opts = op[o].opts /\ receipt.state \in {"pending", "unknown"}
    /\ receipt' = [receipt EXCEPT !.state = "succeeded"]

Resets(o) == op[o].pc = "reset" /\ op'[o].pc = "done" /\ receipt' = NoRow

Goes(o) ==
    /\ receipt' = receipt
    /\ op[o].pc \in Working /\ op'[o].pc # "idle"
    /\ op'[o].pc \in Working => op[o].pc = "probe"

OpShape(o) == OpFrame(o) /\ (Opens(o) \/ Confirms(o) \/ Resets(o) \/ Goes(o))

\* Every step of an operator has one of these shapes.
LEMMA OperatorShape ==
    ASSUME TInv, NEW o \in Operators, ReadReceipt(o) \/ Operate(o)
    PROVE  OpShape(o)
<1>1. op \in [Operators -> OpLocals] /\ faults \in 0..MaxFaults /\ audited \in Nat /\ receipt \in Rows
  BY DEF TInv, TypeOK, OpLocals, Rows
<1>3. \A p \in OpPcs : OpGoTo(o, p) =>
          /\ op' \in [Operators -> OpLocals] /\ op'[o].pc = p
          /\ \A q \in Operators \ {o} : op'[q] = op[q]
  BY <1>1, OpGoToEffect
<1>4. \A a \in Answers : OpAnswer(o, a) =>
          /\ op' \in [Operators -> OpLocals] /\ op'[o].pc = "done"
          /\ \A q \in Operators \ {o} : op'[q] = op[q]
  BY <1>1, OpAnswerEffect
<1>5. \A k : Fault(k) \/ NoFault => faults' \in 0..MaxFaults
  BY <1>1, FaultsBounded
<1>6. {"200", "404", "500", "503"} \subseteq Answers
  BY DEF Answers
<1>a. CASE ReadReceipt(o)
  <2>1. PICK act \in Actions :
          \/ receipt = NoRow /\ OpAnswer(o, "404")
          \/ act = "reconcile" /\ receipt.state = "succeeded" /\ OpAnswer(o, "200")
          \/ /\ receipt # NoRow
             /\ act = "reset" \/ receipt.state # "succeeded"
             /\ op' = [op EXCEPT ![o].act = act, ![o].opts = receipt.opts,
                                 ![o].pc = IF act = "reset" THEN "reset" ELSE "probe"]
    BY <1>a DEF ReadReceipt
  <2>2. /\ op[o].pc = "idle"
        /\ "not_pending" \in Discipline => receipt.state # "pending"
        /\ "one_at_a_time" \in Discipline => \A q \in Operators : op[q].pc \in {"idle", "done"}
        /\ UNCHANGED <<run, receipt, audited, vis, landed, req, faults>>
    BY <1>a DEF ReadReceipt
  <2>3. CASE OpAnswer(o, "404") \/ OpAnswer(o, "200")
    BY <2>2, <2>3, <1>1, <1>4, <1>6 DEF OpShape, OpFrame, Opens, Working
  <2>4. CASE /\ receipt # NoRow
             /\ op' = [op EXCEPT ![o].act = act, ![o].opts = receipt.opts,
                                 ![o].pc = IF act = "reset" THEN "reset" ELSE "probe"]
    <3>1. act \in {"reconcile", "reset"} /\ receipt.opts \in Options
      BY <2>4, <1>1, ActionsAssumption DEF Rows
    <3>2. /\ op' \in [Operators -> OpLocals]
          /\ op'[o].pc = IF act = "reset" THEN "reset" ELSE "probe"
          /\ \A q \in Operators \ {o} : op'[q] = op[q]
      <4>1. op' = [op EXCEPT ![o].act = act, ![o].opts = receipt.opts,
                             ![o].pc = IF act = "reset" THEN "reset" ELSE "probe"]
        BY <2>4
      <4>2. (IF act = "reset" THEN "reset" ELSE "probe") \in OpPcs
        BY DEF OpPcs
      <4>. QED BY ONLY <4>1, <4>2, <3>1, <1>1, OpenEffect
    <3>. QED BY <2>2, <2>4, <3>1, <3>2, <1>1 DEF OpShape, OpFrame, Opens, Working
  <2>. QED BY <2>1, <2>3, <2>4
<1>b. CASE ProbeRemote(o)
  BY <1>b, <1>1, <1>3, <1>4, <1>5, <1>6 DEF ProbeRemote, OpShape, OpFrame, Goes, Working, OpPcs
<1>c. CASE Confirm(o)
  <2>1. op[o].pc = "confirm" /\ UNCHANGED <<run, audited, vis, landed, req>>
    BY <1>c DEF Confirm
  <2>2. ASSUME receipt.opts = op[o].opts, receipt.state \in {"pending", "unknown"},
               receipt' = [receipt EXCEPT !.state = "succeeded"],
               op' = [op EXCEPT ![o].pc = "audit", ![o].did = "confirmed"], NoFault
        PROVE  OpShape(o)
    <3>1. /\ op' \in [Operators -> OpLocals] /\ op'[o].pc = "audit"
          /\ \A q \in Operators \ {o} : op'[q] = op[q]
      <4>1. op' = [op EXCEPT ![o].pc = "audit", ![o].did = "confirmed"]
        BY <2>2
      <4>. QED BY ONLY <4>1, <1>1, ConfirmEffect
    <3>2. faults' \in 0..MaxFaults
      BY <2>2, <1>5
    <3>. QED BY <2>1, <2>2, <3>1, <3>2, <1>1 DEF OpShape, OpFrame, Confirms
  <2>3. ASSUME OpAnswer(o, "503"), receipt' = receipt, Fault("store") \/ NoFault
        PROVE  OpShape(o)
    BY <2>1, <2>3, <1>1, <1>4, <1>5, <1>6 DEF OpShape, OpFrame, Goes, Working
  <2>. QED BY <1>c, <2>2, <2>3 DEF Confirm
<1>d. CASE AppendAudit(o)
  <2>1. /\ op[o].pc = "audit" /\ UNCHANGED <<run, receipt, vis, landed, req>>
        /\ Fault("audit") \/ NoFault
        /\ OpAnswer(o, "503") \/ OpAnswer(o, "200")
        /\ audited' \in Nat
    BY <1>d, <1>1 DEF AppendAudit
  <2>. QED BY <2>1, <1>1, <1>4, <1>5, <1>6 DEF OpShape, OpFrame, Goes, Working
<1>e. CASE Reset(o)
  <2>1. op[o].pc = "reset" /\ UNCHANGED <<run, vis, landed, req>>
    BY <1>e DEF Reset
  <2>2. ASSUME receipt' = NoRow, audited' = audited + 1, NoFault,
               op' = [op EXCEPT ![o].pc = "done", ![o].answer = "200", ![o].did = "reset"]
        PROVE  OpShape(o)
    <3>1. /\ op' \in [Operators -> OpLocals] /\ op'[o].pc = "done"
          /\ \A q \in Operators \ {o} : op'[q] = op[q]
      BY <2>2, <1>1, ResetEffect
    <3>2. faults' \in 0..MaxFaults /\ audited' \in Nat
      BY <2>2, <1>1, <1>5
    <3>. QED BY <2>1, <2>2, <3>1, <3>2 DEF OpShape, OpFrame, Resets
  <2>3. ASSUME OpAnswer(o, "503") \/ OpAnswer(o, "500"), UNCHANGED <<receipt, audited>>,
               Fault("store") \/ NoFault
        PROVE  OpShape(o)
    BY <2>1, <2>3, <1>1, <1>4, <1>5, <1>6 DEF OpShape, OpFrame, Goes, Working
  <2>. QED BY <1>e, <2>2, <2>3 DEF Reset
<1>. QED BY <1>a, <1>b, <1>c, <1>d, <1>e DEF Operate

\* A crash ends every thread that had started.
Stops ==
    /\ req' \in [Requests -> Locals] /\ op' \in [Operators -> OpLocals]
    /\ \A r \in Requests :
          /\ req'[r].pc = (IF req[r].pc = "idle" THEN "idle" ELSE "done")
          /\ req'[r].opts = req[r].opts /\ req'[r].next = req[r].next
          /\ req'[r].answer = req[r].answer
    /\ \A o \in Operators : op'[o].pc \in {"idle", "done"}
    /\ faults' \in 0..MaxFaults
    /\ UNCHANGED <<run, receipt, audited, vis, landed>>

\* Crash does just that.
LEMMA CrashShape == ASSUME TInv, Crash PROVE Stops
<1>1. /\ req \in [Requests -> Locals] /\ op \in [Operators -> OpLocals]
      /\ faults \in 0..MaxFaults
  BY DEF TInv, TypeOK, Locals, OpLocals
<1>2. faults' \in 0..MaxFaults /\ UNCHANGED <<run, receipt, audited, vis, landed>>
  BY <1>1, FaultsBounded DEF Crash
<1>3. req' = [r \in Requests |-> IF req[r].pc = "idle" THEN req[r] ELSE [req[r] EXCEPT !.pc = "done"]]
  BY DEF Crash, At
<1>4. op' = [o \in Operators |-> IF op[o].pc = "idle" THEN op[o] ELSE [op[o] EXCEPT !.pc = "done"]]
  BY DEF Crash
<1>5. ASSUME NEW r \in Requests
      PROVE  /\ req'[r] \in Locals
             /\ req'[r].pc = (IF req[r].pc = "idle" THEN "idle" ELSE "done")
             /\ req'[r].opts = req[r].opts /\ req'[r].next = req[r].next
             /\ req'[r].answer = req[r].answer
  BY <1>1, <1>3 DEF Locals, ReqPcs
<1>6. ASSUME NEW o \in Operators PROVE op'[o] \in OpLocals /\ op'[o].pc \in {"idle", "done"}
  BY <1>1, <1>4 DEF OpLocals, OpPcs
<1>7. req' \in [Requests -> Locals]
  BY <1>3, <1>5
<1>8. op' \in [Operators -> OpLocals]
  BY <1>4, <1>6
<1>. QED BY <1>2, <1>5, <1>6, <1>7, <1>8 DEF Stops

\* What a request's step does to the destination.
Untouched == vis' = vis /\ landed' = landed
Creates(r) == req[r].pc \in {"create", "upload"} /\ vis' = Created(req[r].opts) /\ landed' = landed
Sends(r) ==
    /\ req[r].pc = "upload" /\ vis' = Created(req[r].opts)
    /\ landed' = landed \cup ({req[r].opts} \X Batch(r))

\* Nothing else touches the destination.
LEMMA RemoteShape ==
    ASSUME NEW r \in Requests, Start(r) \/ Request(r)
    PROVE  Untouched \/ Creates(r) \/ Sends(r)
  BY DEF Start, Request, Lookup, CheckReady, ProbeVisibility, Claim, Recheck, CheckPrivate,
         CreateDestination, Upload, MarkSucceeded, MarkUnknown, At, Untouched, Creates, Sends

\* The destination keeps its type.
LEMMA RemoteTyped ==
    ASSUME TInv, NEW r \in Requests, Start(r) \/ Request(r)
    PROVE  vis' \in {"absent", "private", "public"} /\ landed' \subseteq Options \X Files
<1>1. /\ vis \in {"absent", "private", "public"} /\ landed \subseteq Options \X Files
      /\ req[r].next \in Files
      /\ req[r].pc \in {"create", "upload"} => req[r].opts \in Options
  BY DEF TInv, TypeOK, Started
<1>2. Created(req[r].opts) \in {"absent", "private", "public"} /\ Batch(r) \subseteq Files
  BY <1>1 DEF Created, Batch
<1>3. CASE Untouched
  BY <1>1, <1>3 DEF Untouched
<1>4. CASE Creates(r)
  BY <1>1, <1>2, <1>4 DEF Creates
<1>5. CASE Sends(r)
  BY <1>1, <1>2, <1>5 DEF Sends
<1>. QED BY <1>3, <1>4, <1>5, RemoteShape

-----------------------------------------------------------------------------
(* Type correctness.                                                       *)

\* The types hold at first ...
LEMMA TypeInit == Init => TInv
<1> SUFFICES ASSUME Init PROVE TInv
  OBVIOUS
<1>1. 1 \in Files /\ 0 \in 0..MaxFaults
  BY NumbersAssumption DEF Files
<1>2. req \in [Requests -> Locals] /\ Started
  BY <1>1 DEF Init, Locals, ReqPcs, Answers, Started
<1>3. op \in [Operators -> OpLocals]
  BY DEF Init, OpLocals, OpPcs, Answers
<1>4. run \in [status : Statuses, defects : SUBSET {"license_missing", "card_incomplete"},
                verdict : Verdicts, marker : BOOLEAN]
  BY DEF Init, Statuses
<1>5. receipt = NoRow /\ audited \in Nat /\ landed = {} /\ faults = 0
      /\ vis \in {"absent", "private", "public"}
  BY DEF Init
<1>. QED BY <1>1, <1>2, <1>3, <1>4, <1>5 DEF TInv, TypeOK, Locals, OpLocals

\* ... and every step keeps them.
LEMMA TypeStep == TInv /\ [Next]_vars => TInv'
<1> SUFFICES ASSUME TInv, [Next]_vars PROVE TInv'
  OBVIOUS
<1>1. /\ receipt \in Rows /\ req \in [Requests -> Locals] /\ op \in [Operators -> OpLocals]
      /\ run \in [status : Statuses, defects : SUBSET {"license_missing", "card_incomplete"},
                   verdict : Verdicts, marker : BOOLEAN]
      /\ audited \in Nat /\ faults \in 0..MaxFaults
      /\ vis \in {"absent", "private", "public"} /\ landed \subseteq Options \X Files
      /\ \A r \in Requests : req[r].pc # "idle" => req[r].opts \in Options
  BY DEF TInv, TypeOK, Rows, Locals, OpLocals, Started
<1>2. ASSUME NEW r \in Requests, Start(r) \/ Request(r) PROVE TInv'
  <2>1. ReqShape(r)
    BY <1>2, RequestShape
  <2>2. receipt' \in Rows
    <3>1. CASE Claims(r)
      BY <3>1, <1>1 DEF Claims, Rows
    <3>2. ASSUME NEW s \in {"succeeded", "unknown"}, Resolves(r, s) PROVE receipt' \in Rows
      BY <3>2, <1>1 DEF Resolves, Mine, Rows, NoRow
    <3>3. CASE Keeps(r)
      BY <3>3, <1>1 DEF Keeps
    <3>. QED BY <2>1, <3>1, <3>2, <3>3 DEF ReqShape
  <2>3. /\ req' \in [Requests -> Locals] /\ op' = op /\ run' = run /\ audited' = audited
        /\ faults' \in 0..MaxFaults
        /\ \A s \in Requests : req'[s].pc # "idle" => req'[s].opts \in Options
    BY <2>1, <1>1 DEF ReqShape, ReqFrame
  <2>4. vis' \in {"absent", "private", "public"} /\ landed' \subseteq Options \X Files
    BY <1>2, RemoteTyped
  <2>. QED BY <1>1, <2>2, <2>3, <2>4 DEF TInv, TypeOK, Rows, Locals, OpLocals, Started
<1>3. ASSUME NEW o \in Operators, ReadReceipt(o) \/ Operate(o) PROVE TInv'
  <2>1. OpShape(o)
    BY <1>3, OperatorShape
  <2>2. receipt' \in Rows
    <3>1. CASE Confirms(o)
      BY <3>1, <1>1 DEF Confirms, Rows, NoRow
    <3>2. CASE Resets(o)
      BY <3>2 DEF Resets, Rows
    <3>3. CASE Opens(o) \/ Goes(o)
      BY <3>3, <1>1 DEF Opens, Goes
    <3>. QED BY <2>1, <3>1, <3>2, <3>3 DEF OpShape
  <2>3. /\ op' \in [Operators -> OpLocals] /\ req' = req /\ run' = run /\ vis' = vis
        /\ landed' = landed /\ audited' \in Nat /\ faults' \in 0..MaxFaults
    BY <2>1 DEF OpShape, OpFrame
  <2>. QED BY <1>1, <2>2, <2>3 DEF TInv, TypeOK, Rows, Locals, OpLocals, Started
<1>4. CASE Crash
  BY <1>1, <1>4, CrashShape DEF Stops, TInv, TypeOK, Rows, Locals, OpLocals, Started
<1>5. CASE RunEnds
  <2>1. PICK s \in Statuses : run' = [run EXCEPT !.status = s]
    BY <1>5 DEF RunEnds
  <2>2. run' \in [status : Statuses, defects : SUBSET {"license_missing", "card_incomplete"},
                  verdict : Verdicts, marker : BOOLEAN]
    BY <1>1, <2>1
  <2>3. UNCHANGED <<receipt, audited, vis, landed, req, op, faults>>
    BY <1>5 DEF RunEnds
  <2>. QED BY <1>1, <2>2, <2>3 DEF TInv, TypeOK, Rows, Locals, OpLocals, Started
<1>6. CASE UNCHANGED vars
  BY <1>1, <1>6 DEF vars, TInv, TypeOK, Rows, Locals, OpLocals, Started
<1>. QED BY <1>2, <1>3, <1>4, <1>5, <1>6 DEF Next

\* The types of the row, the destination and the threads' locals hold throughout
\* (publish, reconcile_publish and reset_publish_receipt over one receipt).
THEOREM TypeCorrect == Spec => []TypeOK
<1>1. Spec => []TInv
  BY TypeInit, TypeStep, PTL DEF Spec
<1>2. TInv => TypeOK
  BY DEF TInv
<1>. QED BY <1>1, <1>2, PTL

-----------------------------------------------------------------------------
(* One uploader: operators leave a pending row alone and work one at a     *)
(* time.                                                                   *)

Disciplined == {"not_pending", "one_at_a_time"} \subseteq Discipline

\* Whoever is uploading owns the pending row.
OwnsRow == \A r \in Requests : req[r].pc \in Owning => Mine(r)

\* An operator at work has a row before it that nobody is uploading for.
SettledRow ==
    \A o \in Operators : op[o].pc \in Working => receipt.state \in {"unknown", "succeeded"}

\* At most one operator is at work.
OneOperator ==
    \A o, q \in Operators : op[o].pc \in Working /\ op[q].pc \in Working => o = q

UInv == TInv /\ OwnsRow /\ OneUploader /\ SettledRow /\ OneOperator

\* A request's step keeps the owner unique.
LEMMA OwnerRequest ==
    ASSUME UInv, NEW r \in Requests, Start(r) \/ Request(r)
    PROVE  OwnsRow' /\ OneUploader' /\ SettledRow' /\ OneOperator'
<1>1. ReqShape(r)
  BY RequestShape DEF UInv
<1>2. /\ \A s \in Requests \ {r} : req'[s] = req[s]
      /\ req[r].pc # "idle" => req'[r].opts = req[r].opts
      /\ op' = op
  BY <1>1 DEF ReqShape, ReqFrame
<1>3. CASE Claims(r)
  <2>1. \A s \in Requests : req[s].pc \notin Owning
    BY <1>3 DEF UInv, OwnsRow, Mine, Claims, NoRow
  <2>2. \A o \in Operators : op[o].pc \notin Working
    BY <1>3 DEF UInv, SettledRow, Claims, NoRow
  <2>3. Mine(r)'
    BY <1>2, <1>3 DEF Claims, Mine
  <2>. QED BY <1>2, <2>1, <2>2, <2>3 DEF OwnsRow, OneUploader, SettledRow, OneOperator
<1>4. ASSUME NEW x \in {"succeeded", "unknown"}, Resolves(r, x)
      PROVE  OwnsRow' /\ OneUploader' /\ SettledRow' /\ OneOperator'
  <2>1. \A s \in Requests : req'[s].pc \notin Owning
    BY <1>2, <1>4 DEF UInv, OneUploader, Resolves, Owning
  <2>2. receipt.state = "pending" /\ receipt \in Rows
    BY <1>4 DEF Resolves, Mine, UInv, TInv, TypeOK, Rows
  <2>3. \A o \in Operators : op[o].pc \notin Working
    BY <2>2 DEF UInv, SettledRow
  <2>. QED BY <1>2, <2>1, <2>3 DEF OwnsRow, OneUploader, SettledRow, OneOperator
<1>5. CASE Keeps(r)
  <2>1. receipt' = receipt /\ (req'[r].pc \in Owning => req[r].pc \in Owning)
    BY <1>5 DEF Keeps
  <2>2. OwnsRow'
    BY <1>2, <2>1 DEF UInv, OwnsRow, Mine, Owning
  <2>3. OneUploader'
    BY <1>2, <2>1 DEF UInv, OneUploader
  <2>. QED BY <1>2, <2>1, <2>2, <2>3 DEF UInv, SettledRow, OneOperator
<1>. QED BY <1>1, <1>3, <1>4, <1>5 DEF ReqShape

\* A disciplined operator's step does too.
LEMMA OwnerOperator ==
    ASSUME Disciplined, UInv, NEW o \in Operators, ReadReceipt(o) \/ Operate(o)
    PROVE  OwnsRow' /\ OneUploader' /\ SettledRow' /\ OneOperator'
<1>1. OpShape(o)
  BY OperatorShape DEF UInv
<1>2. /\ \A q \in Operators \ {o} : op'[q] = op[q]
      /\ req' = req
  BY <1>1 DEF OpShape, OpFrame
<1>3. CASE Opens(o)
  <2>1. /\ receipt' = receipt /\ op[o].pc = "idle"
        /\ op'[o].pc \in Working =>
              /\ receipt # NoRow /\ receipt.state # "pending"
              /\ \A q \in Operators : op[q].pc \in {"idle", "done"}
    BY <1>3 DEF Opens, Disciplined
  <2>2. receipt # NoRow => receipt.state \in {"pending", "unknown", "succeeded"}
    BY DEF UInv, TInv, TypeOK
  <2>. QED BY <1>2, <2>1, <2>2
       DEF UInv, OwnsRow, Mine, OneUploader, SettledRow, OneOperator, Working
<1>4. ASSUME op[o].pc \in Working PROVE /\ \A r \in Requests : req[r].pc \notin Owning
                                       /\ \A q \in Operators \ {o} : op[q].pc \notin Working
  BY <1>4 DEF UInv, SettledRow, OwnsRow, Mine, OneOperator
<1>5. CASE Confirms(o)
  <2>1. receipt'.state = "succeeded"
    <3>1. receipt \in Rows /\ receipt.state \in {"pending", "unknown"}
      BY <1>5 DEF Confirms, UInv, TInv, TypeOK, Rows
    <3>2. receipt' = [receipt EXCEPT !.state = "succeeded"]
      BY <1>5 DEF Confirms
    <3>. QED BY ONLY <3>1, <3>2 DEF Rows, NoRow
  <2>2. op[o].pc \in Working
    BY <1>5 DEF Confirms, Working
  <2>. QED BY <1>2, <1>4, <2>1, <2>2 DEF OwnsRow, OneUploader, SettledRow, OneOperator
<1>6. CASE Resets(o)
  <2>1. op[o].pc \in Working /\ op'[o].pc \notin Working
    BY <1>6 DEF Resets, Working
  <2>. QED BY <1>2, <1>4, <2>1 DEF OwnsRow, OneUploader, SettledRow, OneOperator
<1>7. CASE Goes(o)
  <2>1. op[o].pc \in Working /\ receipt' = receipt
    BY <1>7 DEF Goes, Working
  <2>2. receipt.state \in {"unknown", "succeeded"}
    BY <2>1 DEF UInv, SettledRow
  <2>. QED BY <1>2, <1>4, <2>1, <2>2 DEF OwnsRow, OneUploader, SettledRow, OneOperator
<1>. QED BY <1>1, <1>3, <1>5, <1>6, <1>7 DEF OpShape

\* The owner's invariant is inductive when operators are disciplined.
LEMMA OwnerInvariance == ASSUME Disciplined PROVE Spec => []UInv
<1>1. Init => UInv
  <2> SUFFICES ASSUME Init PROVE UInv
    OBVIOUS
  <2>1. TInv
    BY TypeInit
  <2>2. /\ \A r \in Requests : req[r].pc = "idle"
        /\ \A o \in Operators : op[o].pc = "idle"
    BY DEF Init
  <2>. QED BY <2>1, <2>2 DEF UInv, OwnsRow, OneUploader, SettledRow, OneOperator, Owning, Working
<1>2. UInv /\ [Next]_vars => UInv'
  <2> SUFFICES ASSUME UInv, [Next]_vars PROVE UInv'
    OBVIOUS
  <2>0. TInv'
    BY TypeStep DEF UInv
  <2>1. ASSUME NEW r \in Requests, Start(r) \/ Request(r) PROVE UInv'
    BY <2>0, <2>1, OwnerRequest DEF UInv
  <2>2. ASSUME NEW o \in Operators, ReadReceipt(o) \/ Operate(o) PROVE UInv'
    BY <2>0, <2>2, OwnerOperator DEF UInv
  <2>3. CASE Crash
    <3>1. Stops
      BY <2>3, CrashShape DEF UInv
    <3>2. /\ \A r \in Requests : req'[r].pc \notin Owning
          /\ \A o \in Operators : op'[o].pc \notin Working
      BY <3>1 DEF Stops, Owning, Working
    <3>. QED BY <2>0, <3>2 DEF UInv, OwnsRow, OneUploader, SettledRow, OneOperator
  <2>4. CASE RunEnds \/ UNCHANGED vars
    <3>1. UNCHANGED <<receipt, req, op>>
      BY <2>4 DEF RunEnds, vars
    <3>. QED BY <2>0, <3>1 DEF UInv, OwnsRow, Mine, OneUploader, SettledRow, OneOperator
  <2>. QED BY <2>1, <2>2, <2>3, <2>4 DEF Next
<1>. QED BY <1>1, <1>2, PTL DEF Spec

\* No duplicate remote side effects: with operators who leave a pending row alone
\* and work one at a time, two requests never upload for the receipt at once,
\* whatever fails (PublishReceiptStore.claim).
THEOREM UploadsAlone == ASSUME Disciplined PROVE Spec => []OneUploader
<1>1. UInv => OneUploader
  BY DEF UInv
<1>. QED BY <1>1, OwnerInvariance, PTL

-----------------------------------------------------------------------------
(* Success is true: operators only reset.                                  *)

OnlyResets == "reconcile" \notin Actions

\* What a request's place says of the files that have landed.
Progress(r) ==
    /\ req[r].pc \notin {"upload", "mark", "failed", "done"} => req[r].next = 1
    /\ req[r].pc = "upload" => \A f \in Files : f < req[r].next => <<req[r].opts, f>> \in landed
    /\ req[r].pc = "mark" => Complete(req[r].opts)
    /\ req[r].answer = "200" => req[r].pc = "done" /\ Complete(req[r].opts)

NoConfirm == \A o \in Operators : op[o].pc \in {"idle", "reset", "done"}

SInv ==
    /\ TInv /\ NoConfirm
    /\ \A r \in Requests : Progress(r)
    /\ receipt.state = "succeeded" => Complete(receipt.opts)

\* A request's step keeps its place honest.
LEMMA ProgressKept ==
    ASSUME SInv, NEW r \in Requests, Start(r) \/ Request(r), landed \subseteq landed'
    PROVE  Progress(r)'
<1>1. req \in [Requests -> Locals] /\ Progress(r)
  BY DEF SInv, TInv, TypeOK, Locals
<1>2. \A p \in ReqPcs : GoTo(r, p) =>
          /\ req'[r].pc = p /\ req'[r].opts = req[r].opts
          /\ req'[r].next = req[r].next /\ req'[r].answer = req[r].answer
  BY <1>1, GoToEffect
<1>3. \A a \in Answers : Answer(r, a) =>
          /\ req'[r].pc = "done" /\ req'[r].opts = req[r].opts
          /\ req'[r].next = req[r].next /\ req'[r].answer = a
  BY <1>1, AnswerEffect
<1>5. {"409", "502"} \subseteq Answers /\ "200" \in Answers
  BY DEF Answers
<1>6. ASSUME NEW a \in Answers, Answer(r, a), a = "200" => Complete(req[r].opts)
      PROVE  Progress(r)'
  <2>1. /\ req'[r].pc = "done" /\ req'[r].opts = req[r].opts
        /\ req'[r].next = req[r].next /\ req'[r].answer = a
    BY <1>3, <1>6
  <2>2. a = "200" => \A f \in Files : <<req[r].opts, f>> \in landed'
    BY <1>6 DEF Complete
  <2>. QED BY <2>1, <2>2 DEF Progress, Complete
<1>7. ASSUME NEW p \in {"ready", "visibility", "claim", "recheck", "private", "create"}, GoTo(r, p),
             req[r].pc \in {"lookup", "ready", "visibility", "claim", "recheck", "private"}
      PROVE  Progress(r)'
  BY <1>1, <1>2, <1>7 DEF Progress, ReqPcs
<1>8. ASSUME GoTo(r, "failed"), req[r].pc # "done" PROVE Progress(r)'
  BY <1>1, <1>2, <1>8 DEF Progress, ReqPcs
<1>9. ASSUME GoTo(r, "upload"), req[r].pc \in {"private", "create"} PROVE Progress(r)'
  <2>1. req[r].next = 1 /\ req[r].answer # "200"
    BY <1>1, <1>9 DEF Progress
  <2>2. \A f \in Files : ~(f < 1)
    BY NumbersAssumption DEF Files
  <2>. QED BY <1>2, <1>9, <2>1, <2>2 DEF Progress, ReqPcs
<1>0. ASSUME receipt # NoRow, Answer(r, ReceiptAnswer(req[r].opts)) PROVE Progress(r)'
  <2>1. ReceiptAnswer(req[r].opts) \in Answers
    BY <1>5 DEF ReceiptAnswer
  <2>2. ReceiptAnswer(req[r].opts) = "200" => Complete(req[r].opts)
    BY DEF ReceiptAnswer, SInv
  <2>. QED BY <1>0, <1>6, <2>1, <2>2
<1>a. CASE Start(r)
  <2>1. PICK o \in Options : req' = [req EXCEPT ![r].pc = "lookup", ![r].opts = o]
    BY <1>a DEF Start
  <2>2. req[r].pc = "idle"
    BY <1>a DEF Start, At
  <2>3. req'[r].pc = "lookup" /\ req'[r].next = req[r].next /\ req'[r].answer = req[r].answer
    BY <1>1, <2>1 DEF Locals
  <2>. QED BY <1>1, <2>2, <2>3 DEF Progress
<1>b. CASE Lookup(r)
  BY <1>b, <1>5, <1>6, <1>7, <1>0 DEF Lookup, At
<1>c. CASE CheckReady(r)
  BY <1>c, <1>5, <1>6, <1>7 DEF CheckReady, At
<1>d. CASE ProbeVisibility(r)
  BY <1>d, <1>5, <1>6, <1>7 DEF ProbeVisibility, At
<1>e. CASE Claim(r)
  <2>1. \/ Answer(r, "409") \/ GoTo(r, "recheck") \/ GoTo(r, "private")
        \/ receipt # NoRow /\ Answer(r, ReceiptAnswer(req[r].opts))
    BY <1>e DEF Claim
  <2>2. req[r].pc = "claim"
    BY <1>e DEF Claim, At
  <2>. QED BY <2>1, <2>2, <1>5, <1>6, <1>7, <1>0
<1>f. CASE Recheck(r)
  BY <1>f, <1>5, <1>6, <1>7 DEF Recheck, At
<1>g. CASE CheckPrivate(r)
  BY <1>g, <1>7, <1>8, <1>9 DEF CheckPrivate, At
<1>h. CASE CreateDestination(r)
  BY <1>h, <1>8, <1>9 DEF CreateDestination, At
<1>i. CASE Upload(r)
  <2>1. /\ req[r].pc = "upload" /\ req[r].next \in Files
        /\ \A f \in Files : f < req[r].next => <<req[r].opts, f>> \in landed
        /\ req[r].answer # "200"
    BY <1>1, <1>i DEF Upload, At, Progress, Locals
  <2>2. \/ GoTo(r, "failed")
        \/ /\ landed' = landed \cup ({req[r].opts} \X Batch(r))
           /\ IF NFiles \in Batch(r) THEN GoTo(r, "mark")
              ELSE req' = [req EXCEPT ![r].next = @ + 1]
    BY <1>i DEF Upload
  <2>3. \A f \in Files : f <= req[r].next => f = req[r].next \/ f < req[r].next
    BY <2>1, NumbersAssumption DEF Files
  <2>4. CASE GoTo(r, "failed")
    BY <2>1, <2>4, <1>8
  <2>5. ASSUME landed' = landed \cup ({req[r].opts} \X Batch(r)), NFiles \in Batch(r), GoTo(r, "mark")
        PROVE  Progress(r)'
    <3>1. ASSUME NEW f \in Files PROVE <<req[r].opts, f>> \in landed'
      <4>1. CASE Target = "kaggle"
        BY <2>5, <4>1 DEF Batch
      <4>2. CASE Target # "kaggle"
        <5>1. Batch(r) = {NFiles} /\ req[r].next = NFiles /\ f <= NFiles
          BY <2>5, <4>2, NumbersAssumption DEF Batch, Files
        <5>. QED BY <2>1, <2>3, <2>5, <5>1
      <4>. QED BY <4>1, <4>2
    <3>2. req'[r].pc = "mark" /\ req'[r].opts = req[r].opts /\ req'[r].answer = req[r].answer
      BY <2>5, <1>2 DEF ReqPcs
    <3>. QED BY <3>1, <3>2, <2>1 DEF Progress, Complete
  <2>6. ASSUME landed' = landed \cup ({req[r].opts} \X Batch(r)), NFiles \notin Batch(r),
               req' = [req EXCEPT ![r].next = @ + 1]
        PROVE  Progress(r)'
    <3>1. Batch(r) = {req[r].next}
      BY <2>6, NumbersAssumption DEF Batch, Files
    <3>2. /\ req'[r].next = req[r].next + 1 /\ req'[r].opts = req[r].opts
          /\ req'[r].pc = req[r].pc /\ req'[r].answer = req[r].answer
      BY <1>1, <2>6 DEF Locals
    <3>3. ASSUME NEW f \in Files, f < req[r].next + 1 PROVE <<req[r].opts, f>> \in landed'
      <4>1. f <= req[r].next
        BY <2>1, <3>3, NumbersAssumption DEF Files
      <4>. QED BY <4>1, <2>1, <2>3, <2>6, <3>1
    <3>. QED BY <2>1, <3>2, <3>3 DEF Progress
  <2>. QED BY <2>2, <2>4, <2>5, <2>6
<1>j. CASE MarkSucceeded(r)
  <2>1. req[r].pc = "mark" /\ Complete(req[r].opts)
    BY <1>1, <1>j DEF MarkSucceeded, At, Progress
  <2>2. GoTo(r, "failed") \/ Answer(r, "200")
    BY <1>j DEF MarkSucceeded
  <2>. QED BY <2>1, <2>2, <1>5, <1>6, <1>8
<1>k. CASE MarkUnknown(r)
  <2>1. Answer(r, "502")
    BY <1>k DEF MarkUnknown
  <2>. QED BY <2>1, <1>5, <1>6
<1>. QED BY <1>a, <1>b, <1>c, <1>d, <1>e, <1>f, <1>g, <1>h, <1>i, <1>j, <1>k DEF Request

\* The truth of success is inductive when operators only reset.
LEMMA TruthInvariance == ASSUME OnlyResets PROVE Spec => []SInv
<1>1. Init => SInv
  <2> SUFFICES ASSUME Init PROVE SInv
    OBVIOUS
  <2>1. TInv
    BY TypeInit
  <2>2. /\ \A r \in Requests : req[r].pc = "idle" /\ req[r].next = 1 /\ req[r].answer = "none"
        /\ \A o \in Operators : op[o].pc = "idle"
        /\ receipt.state = "none"
    BY DEF Init, NoRow
  <2>. QED BY <2>1, <2>2 DEF SInv, NoConfirm, Progress
<1>2. SInv /\ [Next]_vars => SInv'
  <2> SUFFICES ASSUME SInv, [Next]_vars PROVE SInv'
    OBVIOUS
  <2>0. TInv' /\ TInv
    BY TypeStep DEF SInv
  <2>1. ASSUME NEW r \in Requests, Start(r) \/ Request(r) PROVE SInv'
    <3>1. landed \subseteq landed'
      BY <2>1, RemoteShape DEF Untouched, Creates, Sends
    <3>2. ReqShape(r)
      BY <2>0, <2>1, RequestShape
    <3>3. (\A s \in Requests \ {r} : req'[s] = req[s]) /\ op' = op
      BY <3>2 DEF ReqShape, ReqFrame
    <3>4. ASSUME NEW s \in Requests PROVE Progress(s)'
      <4>1. CASE s = r
        BY <2>1, <3>1, <4>1, ProgressKept
      <4>2. CASE s # r
        <5>1. req'[s] = req[s] /\ Progress(s)
          BY <3>3, <4>2 DEF SInv
        <5>. QED BY <5>1, <3>1 DEF Progress, Complete
      <4>. QED BY <4>1, <4>2
    <3>5. receipt'.state = "succeeded" => Complete(receipt.opts)'
      <4>1. CASE Claims(r)
        BY <4>1 DEF Claims
      <4>2. ASSUME Resolves(r, "succeeded") PROVE \A f \in Files : <<receipt'.opts, f>> \in landed'
        <5>1. req[r].pc = "mark" /\ receipt.opts = req[r].opts /\ receipt \in Rows
          BY <4>2, <2>0 DEF Resolves, Mine, TInv, TypeOK, Rows
        <5>2. receipt' = [receipt EXCEPT !.state = "succeeded"]
          BY <4>2 DEF Resolves
        <5>3. receipt'.opts = receipt.opts
          BY ONLY <5>1, <5>2 DEF Rows, NoRow
        <5>4. Complete(req[r].opts)
          BY <5>1 DEF SInv, Progress
        <5>. QED BY <5>1, <5>3, <5>4, <3>1 DEF Complete
      <4>3. CASE Resolves(r, "unknown")
        <5>1. receipt \in Rows
          BY <2>0 DEF TInv, TypeOK, Rows
        <5>2. receipt' = [receipt EXCEPT !.state = "unknown"]
          BY <4>3 DEF Resolves
        <5>3. receipt'.state = "unknown"
          BY ONLY <5>1, <5>2 DEF Rows, NoRow
        <5>. QED BY <5>3
      <4>4. CASE Keeps(r)
        <5>1. receipt' = receipt
          BY <4>4 DEF Keeps
        <5>. QED BY <5>1, <3>1 DEF SInv, Complete
      <4>. QED BY <3>2, <4>1, <4>2, <4>3, <4>4 DEF ReqShape, Complete
    <3>. QED BY <2>0, <3>3, <3>4, <3>5 DEF SInv, NoConfirm
  <2>2. ASSUME NEW o \in Operators, ReadReceipt(o) \/ Operate(o) PROVE SInv'
    <3>1. OpShape(o)
      BY <2>0, <2>2, OperatorShape
    <3>2. /\ \A q \in Operators \ {o} : op'[q] = op[q]
          /\ op' \in [Operators -> OpLocals]
          /\ req' = req /\ landed' = landed
      BY <3>1 DEF OpShape, OpFrame
    <3>3. op[o].pc \in {"idle", "reset", "done"}
      BY DEF SInv, NoConfirm
    <3>4. op'[o].pc \in {"idle", "reset", "done"}
      <4>1. op'[o].pc \in OpPcs
        BY <3>2 DEF OpLocals
      <4>2. CASE Opens(o)
        BY <4>1, <4>2 DEF Opens, OnlyResets, Working, OpPcs
      <4>3. CASE Goes(o) \/ Resets(o) \/ Confirms(o)
        BY <3>3, <4>1, <4>3 DEF Goes, Resets, Confirms, Working, OpPcs
      <4>. QED BY <3>1, <4>2, <4>3 DEF OpShape
    <3>5. receipt' \in {receipt, NoRow}
      BY <3>1, <3>3 DEF OpShape, Opens, Goes, Resets, Confirms
    <3>6. NoConfirm'
      BY <3>2, <3>4 DEF SInv, NoConfirm
    <3>7. receipt'.state = "succeeded" => Complete(receipt.opts)'
      BY <3>2, <3>5 DEF SInv, Complete, NoRow
    <3>. QED BY <2>0, <3>2, <3>6, <3>7 DEF SInv, Progress, Complete
  <2>3. CASE Crash
    <3>1. Stops
      BY <2>0, <2>3, CrashShape
    <3>2. ASSUME NEW r \in Requests PROVE Progress(r)'
      <4>1. Progress(r)
        BY DEF SInv
      <4>. QED BY <3>1, <4>1 DEF Stops, Progress, Complete
    <3>. QED BY <2>0, <3>1, <3>2 DEF SInv, NoConfirm, Stops, Complete
  <2>4. CASE RunEnds \/ UNCHANGED vars
    <3>1. UNCHANGED <<receipt, landed, req, op>>
      BY <2>4 DEF RunEnds, vars
    <3>. QED BY <2>0, <3>1 DEF SInv, NoConfirm, Progress, Complete
  <2>. QED BY <2>1, <2>2, <2>3, <2>4 DEF Next
<1>. QED BY <1>1, <1>2, PTL DEF Spec

\* With operators who only reset, at any moment and however often, a succeeded
\* receipt and every 200 belong to options whose files all landed
\* (mark_succeeded by fingerprint, _publish_receipt_response).
THEOREM SuccessIsTrue == ASSUME OnlyResets PROVE Spec => []SucceededTrue
<1>1. SInv => SucceededTrue
  BY DEF SInv, Progress, SucceededTrue
<1>. QED BY <1>1, TruthInvariance, PTL

-----------------------------------------------------------------------------
(* The source terms are respected: one uploader at a time.                 *)

\* A request past readiness passed every gate, and the run cannot change.
Gated ==
    \A r \in Requests : req[r].pc \in {"visibility", "claim"} \cup Owning =>
        run.status = "succeeded" /\ run.defects = {} /\ TermsIssues(req[r].opts) = {}

\* A private upload is under way only to a destination that is not public.
PrivateAlone ==
    \A r \in Requests : req[r].pc \in {"create", "upload"} /\ ~req[r].opts.public => vis # "public"

\* A destination that does not exist holds nothing; a local one is never public.
LocalOnly == \A r \in Requests : req[r].pc = "recheck" => Target = "local"
Destination == (vis = "absent" => landed = {}) /\ (Target = "local" => vis # "public")

GInv == UInv /\ Gated /\ PrivateAlone /\ LocalOnly /\ Destination /\ TermsRespected

\* Readiness without blockers means a succeeded, flawless run whose terms allow it.
LEMMA ReadyMeans ==
    ASSUME TypeOK, NEW o, NEW found, Blockers(o, found) = {}
    PROVE  run.status = "succeeded" /\ run.defects = {} /\ TermsIssues(o) = {}
<1>1. StatusIssues = {}
  BY DEF Blockers
<1>2. run.status \in Statuses
  BY DEF TypeOK
<1>3. run.status = "succeeded"
  BY <1>1, <1>2 DEF StatusIssues, Statuses
<1>. QED BY <1>3 DEF Blockers, ContentIssues

\* A public publish without terms issues, of terms that do not forbid it, is allowed.
LEMMA PublicMeans ==
    ASSUME TypeOK, NEW o, o.public, TermsIssues(o) = {}
    PROVE  PublicAllowed(o)
<1>1. run.verdict \in Verdicts
  BY DEF TypeOK
<1>2. run.verdict # "forbidden" /\ run.verdict # "unknown"
  <2>1. "redistribution_forbidden" \notin TermsIssues(o) /\ "redistribution_unknown" \notin TermsIssues(o)
    OBVIOUS
  <2>. QED BY <2>1 DEF TermsIssues
<1>3. run.verdict = "non_commercial" => o.confirmed /\ run.marker
  <2>1. /\ "non_commercial_unconfirmed" \notin TermsIssues(o)
        /\ "non_commercial_marker_missing" \notin TermsIssues(o)
    OBVIOUS
  <2>. QED BY <2>1 DEF TermsIssues
<1>. QED BY <1>1, <1>2, <1>3 DEF PublicAllowed, Verdicts

\* Terms without issues are not forbidden.
LEMMA NotForbidden == ASSUME NEW o, TermsIssues(o) = {} PROVE run.verdict # "forbidden"
<1>1. "redistribution_forbidden" \notin TermsIssues(o)
  OBVIOUS
<1>. QED BY <1>1 DEF TermsIssues

\* A request's step keeps the gates, the destination and the terms.
LEMMA TermsRequest ==
    ASSUME GInv, NEW r \in Requests, Start(r) \/ Request(r)
    PROVE  Gated' /\ PrivateAlone' /\ LocalOnly' /\ Destination' /\ TermsRespected'
<1>0. TInv /\ TypeOK /\ UInv
  BY DEF GInv, UInv, TInv
<1>1. ReqFrame(r)
  BY <1>0, RequestShape DEF ReqShape
<1>2. /\ \A s \in Requests \ {r} : req'[s] = req[s]
      /\ req[r].pc # "idle" => req'[r].opts = req[r].opts
      /\ run' = run
      /\ req' \in [Requests -> Locals]
  BY <1>1 DEF ReqFrame
<1>3. req \in [Requests -> Locals]
  BY <1>0 DEF TypeOK, Locals
<1>4. \A p \in ReqPcs : GoTo(r, p) => req'[r].pc = p
  BY <1>3, GoToEffect
<1>5. \A a \in Answers : Answer(r, a) => req'[r].pc = "done"
  BY <1>3, AnswerEffect
<1>6. "409" \in Answers /\ "200" \in Answers /\ "502" \in Answers
      /\ ReceiptAnswer(req[r].opts) \in Answers
  BY DEF Answers, ReceiptAnswer
\* Where the step leads, and what it went through to get there.
<1>7. /\ req'[r].pc \in {"visibility", "claim"} \cup Owning =>
            \/ req[r].pc \in {"visibility", "claim"} \cup Owning
            \/ req[r].pc = "ready" /\ \E found : Blockers(req[r].opts, found) = {}
      /\ req'[r].pc \in {"create", "upload"} =>
            \/ req[r].pc \in {"create", "upload"}
            \/ req[r].pc = "recheck" /\ Target = "local"
            \/ req[r].pc = "private" /\ (req[r].opts.public \/ vis # "public")
      /\ req'[r].pc = "recheck" => Target = "local"
  <2>a. CASE Start(r)
    <3>1. PICK o \in Options : req' = [req EXCEPT ![r].pc = "lookup", ![r].opts = o]
      BY <2>a DEF Start
    <3>2. req'[r].pc = "lookup"
      BY <1>3, <3>1 DEF Locals
    <3>. QED BY <3>2 DEF Owning
  <2>b. CASE Lookup(r)
    BY <2>b, <1>4, <1>5, <1>6 DEF Lookup, Owning, ReqPcs
  <2>c. CASE CheckReady(r)
    <3>1. PICK found \in BOOLEAN :
            \/ Answer(r, "409")
            \/ /\ Blockers(req[r].opts, found) = {}
               /\ GoTo(r, IF NeedsPrivate(req[r].opts) THEN "visibility" ELSE "claim")
      BY <2>c DEF CheckReady
    <3>2. req[r].pc = "ready"
      BY <2>c DEF CheckReady, At
    <3>3. CASE Answer(r, "409")
      BY <3>3, <1>5, <1>6 DEF Owning
    <3>4. ASSUME GoTo(r, IF NeedsPrivate(req[r].opts) THEN "visibility" ELSE "claim")
          PROVE  req'[r].pc \in {"visibility", "claim"}
      BY <3>4, <1>4 DEF ReqPcs
    <3>. QED BY <3>1, <3>2, <3>3, <3>4
  <2>d. CASE ProbeVisibility(r)
    BY <2>d, <1>4, <1>5, <1>6 DEF ProbeVisibility, At, Owning, ReqPcs
  <2>e. CASE Claim(r)
    <3>1. \/ Answer(r, "409") \/ Answer(r, ReceiptAnswer(req[r].opts))
          \/ Target = "local" /\ GoTo(r, "recheck")
          \/ GoTo(r, "private")
      BY <2>e DEF Claim
    <3>2. req[r].pc = "claim"
      BY <2>e DEF Claim, At
    <3>. QED BY <3>1, <3>2, <1>4, <1>5, <1>6 DEF Owning, ReqPcs
  <2>f. CASE Recheck(r)
    <3>1. req[r].pc = "recheck" /\ (Answer(r, "409") \/ GoTo(r, "create"))
      BY <2>f DEF Recheck, At
    <3>2. Target = "local"
      BY <3>1 DEF GInv, LocalOnly
    <3>. QED BY <3>1, <3>2, <1>4, <1>5, <1>6 DEF Owning, ReqPcs
  <2>g. CASE CheckPrivate(r)
    <3>1. /\ req[r].pc = "private"
          /\ \/ GoTo(r, "failed")
             \/ /\ req[r].opts.public \/ vis # "public"
                /\ GoTo(r, "upload") \/ GoTo(r, "create")
      BY <2>g DEF CheckPrivate, At
    <3>. QED BY <3>1, <1>4 DEF Owning, ReqPcs
  <2>h. CASE CreateDestination(r) \/ Upload(r)
    <3>1. /\ req[r].pc \in {"create", "upload"}
          /\ \/ GoTo(r, "failed") \/ GoTo(r, "upload") \/ GoTo(r, "mark")
             \/ req' = [req EXCEPT ![r].next = @ + 1]
      BY <2>h DEF CreateDestination, Upload, At
    <3>2. req'[r].pc \in {"failed", "upload", "mark", req[r].pc}
      BY <3>1, <1>3, <1>4 DEF ReqPcs, Locals
    <3>. QED BY <3>1, <3>2 DEF Owning
  <2>j. CASE MarkSucceeded(r) \/ MarkUnknown(r)
    <3>1. /\ req[r].pc \in {"mark", "failed"}
          /\ GoTo(r, "failed") \/ Answer(r, "200") \/ Answer(r, "502")
      BY <2>j DEF MarkSucceeded, MarkUnknown, At
    <3>. QED BY <3>1, <1>4, <1>5, <1>6 DEF Owning, ReqPcs
  <2>. QED BY <2>a, <2>b, <2>c, <2>d, <2>e, <2>f, <2>g, <2>h, <2>j DEF Request
<1>8. Gated'
  <2>1. ASSUME NEW s \in Requests, req'[s].pc \in {"visibility", "claim"} \cup Owning
        PROVE  run.status = "succeeded" /\ run.defects = {} /\ TermsIssues(req'[s].opts) = {}
    <3>1. CASE s # r
      BY <1>2, <2>1, <3>1 DEF GInv, Gated
    <3>2. CASE s = r
      <4>1. req[r].pc # "idle"
        BY <1>7, <2>1, <3>2 DEF Owning
      <4>2. run.status = "succeeded" /\ run.defects = {} /\ TermsIssues(req[r].opts) = {}
        BY <1>0, <1>7, <2>1, <3>2, ReadyMeans DEF GInv, Gated
      <4>. QED BY <1>2, <3>2, <4>1, <4>2
    <3>. QED BY <3>1, <3>2
  <2>. QED BY <1>2, <2>1 DEF Gated, TermsIssues
<1>9. Untouched \/ Creates(r) \/ Sends(r)
  BY RemoteShape
<1>a. req[r].pc \in {"create", "upload"} =>
        /\ \A s \in Requests \ {r} : req[s].pc \notin {"create", "upload"}
        /\ req[r].opts \in Options
        /\ ~req[r].opts.public => vis # "public"
        /\ run.status = "succeeded" /\ run.defects = {} /\ TermsIssues(req[r].opts) = {}
  BY <1>0 DEF UInv, OneUploader, Owning, TInv, Started, GInv, PrivateAlone, Gated
<1>b. vis \in {"absent", "private", "public"}
  BY <1>0 DEF TypeOK
<1>c. /\ Created(req[r].opts) # "absent"
      /\ ~req[r].opts.public /\ vis # "public" => Created(req[r].opts) # "public"
      /\ Created(req[r].opts) = "public" => vis = "public" \/ (vis = "absent" /\ req[r].opts.public)
  BY <1>b DEF Created
<1>d. PrivateAlone'
  <2>1. ASSUME NEW s \in Requests, req'[s].pc \in {"create", "upload"}, ~req'[s].opts.public
        PROVE  vis' # "public"
    <3>1. CASE s # r
      <4>1. req[s].pc \in {"create", "upload"} /\ ~req[s].opts.public
        BY <1>2, <2>1, <3>1
      <4>2. vis # "public"
        BY <4>1 DEF GInv, PrivateAlone
      <4>3. Untouched
        BY <1>9, <1>a, <3>1, <4>1 DEF Creates, Sends
      <4>. QED BY <4>2, <4>3 DEF Untouched
    <3>2. CASE s = r
      <4>1. req[r].pc \in {"create", "upload", "recheck", "private"} /\ ~req[r].opts.public
        BY <1>2, <1>7, <2>1, <3>2
      <4>2. vis # "public"
        BY <1>7, <1>a, <2>1, <3>2, <4>1 DEF GInv, Destination
      <4>. QED BY <4>1, <4>2, <1>9, <1>c DEF Untouched, Creates, Sends
    <3>. QED BY <3>1, <3>2
  <2>. QED BY <2>1 DEF PrivateAlone
<1>e. LocalOnly'
  BY <1>2, <1>7 DEF GInv, LocalOnly
<1>f. Destination'
  <2>1. vis' = "absent" => landed' = {}
    BY <1>9, <1>c DEF GInv, Destination, Untouched, Creates, Sends
  <2>2. Target = "local" => vis' # "public"
    <3>1. CASE Untouched
      BY <3>1 DEF Untouched, GInv, Destination
    <3>2. ASSUME Creates(r) \/ Sends(r), Target = "local" PROVE vis' # "public"
      <4>1. req[r].opts \in Options /\ vis' = Created(req[r].opts) /\ vis # "public"
        BY <3>2, <1>a DEF Creates, Sends, GInv, Destination
      <4>2. ~req[r].opts.public
        BY <3>2, <4>1, OptionsAssumption
      <4>. QED BY <4>1, <4>2, <1>c
    <3>. QED BY <1>9, <3>1, <3>2
  <2>. QED BY <2>1, <2>2 DEF Destination
<1>g. TermsRespected'
  <2>0. \A o : PublicAllowed(o)' <=> PublicAllowed(o)
    BY <1>2 DEF PublicAllowed
  <2>1. CASE Untouched
    BY <1>2, <2>0, <2>1 DEF Untouched, GInv, TermsRespected
  <2>2. CASE Creates(r)
    <3>1. /\ landed' = landed
          /\ vis' = "public" => vis = "public" \/ landed = {}
      BY <2>2, <1>c DEF Creates, GInv, Destination
    <3>. QED BY <1>2, <2>0, <3>1 DEF GInv, TermsRespected
  <2>3. CASE Sends(r)
    <3>1. /\ req[r].opts \in Options
          /\ run.status = "succeeded" /\ run.defects = {} /\ TermsIssues(req[r].opts) = {}
          /\ vis' = Created(req[r].opts)
          /\ landed' = landed \cup ({req[r].opts} \X Batch(r))
      BY <2>3, <1>a DEF Sends
    <3>2. run.verdict # "forbidden"
      BY <3>1, NotForbidden
    <3>3. ASSUME vis' = "public", NEW e \in landed' PROVE PublicAllowed(e[1])
      <4>1. req[r].opts.public /\ (vis = "public" \/ landed = {})
        BY <2>3, <3>1, <3>3, <1>a, <1>c DEF Sends, GInv, Destination
      <4>2. PublicAllowed(req[r].opts)
        BY <1>0, <3>1, <4>1, PublicMeans
      <4>3. CASE e \in landed
        BY <4>1, <4>3 DEF GInv, TermsRespected
      <4>4. CASE e \in {req[r].opts} \X Batch(r)
        BY <4>2, <4>4
      <4>. QED BY <3>1, <3>3, <4>3, <4>4
    <3>. QED BY <1>2, <2>0, <3>1, <3>2, <3>3 DEF TermsRespected
  <2>. QED BY <1>9, <2>1, <2>2, <2>3
<1>. QED BY <1>8, <1>d, <1>e, <1>f, <1>g

\* The terms' invariant is inductive when operators are disciplined.
LEMMA TermsInvariance == ASSUME Disciplined PROVE Spec => []GInv
<1>1. Init => GInv
  <2> SUFFICES ASSUME Init PROVE GInv
    OBVIOUS
  <2>1. TInv
    BY TypeInit
  <2>2. /\ \A r \in Requests : req[r].pc = "idle"
        /\ \A o \in Operators : op[o].pc = "idle"
        /\ landed = {}
        /\ Target = "local" => vis # "public"
    BY DEF Init
  <2>. QED BY <2>1, <2>2 DEF UInv, OwnsRow, OneUploader, SettledRow, OneOperator, Owning, Working,
                             GInv, Gated, PrivateAlone, LocalOnly, Destination, TermsRespected
<1>2. UInv /\ UInv' /\ GInv /\ [Next]_vars => GInv'
  <2> SUFFICES ASSUME UInv, UInv', GInv, [Next]_vars PROVE GInv'
    OBVIOUS
  <2>1. ASSUME NEW r \in Requests, Start(r) \/ Request(r) PROVE GInv'
    BY <2>1, TermsRequest DEF GInv
  <2>2. ASSUME UNCHANGED <<run, req, vis, landed>> PROVE GInv'
    BY <2>2 DEF GInv, Gated, TermsIssues, PrivateAlone, LocalOnly, Destination, TermsRespected, PublicAllowed
  <2>3. ASSUME NEW o \in Operators, ReadReceipt(o) \/ Operate(o) PROVE GInv'
    <3>1. OpShape(o)
      BY <2>3, OperatorShape DEF UInv
    <3>. QED BY <2>2, <3>1 DEF OpShape, OpFrame
  <2>4. CASE Crash
    <3>1. Stops
      BY <2>4, CrashShape DEF UInv
    <3>2. /\ \A r \in Requests : req'[r].pc \in {"idle", "done"}
          /\ UNCHANGED <<run, vis, landed>>
      BY <3>1 DEF Stops
    <3>. QED BY <3>2 DEF GInv, Gated, PrivateAlone, LocalOnly, Destination, TermsRespected,
                         PublicAllowed, Owning
  <2>5. CASE RunEnds
    <3>1. run.status = "active" /\ UNCHANGED <<req, vis, landed>>
      BY <2>5 DEF RunEnds
    <3>2. landed = {}
      BY <3>1 DEF GInv, TermsRespected
    <3>3. \A r \in Requests : req[r].pc \notin {"visibility", "claim"} \cup Owning
      BY <3>1 DEF GInv, Gated
    <3>. QED BY <3>1, <3>2, <3>3 DEF GInv, Gated, PrivateAlone, LocalOnly, Destination, TermsRespected
  <2>6. CASE UNCHANGED vars
    BY <2>2, <2>6 DEF vars
  <2>. QED BY <2>1, <2>3, <2>4, <2>5, <2>6 DEF Next
<1>. QED BY <1>1, <1>2, OwnerInvariance, PTL DEF Spec

\* With disciplined operators no file of a run that failed a gate leaves, and at
\* a public destination lie only files that a public publish was allowed to send,
\* whatever fails (build_readiness, the two visibility checks and create_repo).
THEOREM TermsKept == ASSUME Disciplined PROVE Spec => []TermsRespected
<1>1. GInv => TermsRespected
  BY DEF GInv
<1>. QED BY <1>1, TermsInvariance, PTL

-----------------------------------------------------------------------------
(* The audit log.  It is complete where nothing is ever confirmed, or where *)
(* operators work one at a time and neither the second transaction fails   *)
(* nor the process dies before it.                                         *)

NothingConfirmed == Target # "huggingface" \/ "reconcile" \notin Actions
OneTransaction == "one_at_a_time" \in Discipline /\ "audit" \notin FaultKinds /\ "crash" \notin FaultKinds
Logged == IsFiniteSet(Operators) /\ (NothingConfirmed \/ OneTransaction)

Did(o) == op[o].did # "nothing" /\ op[o].pc # "audit"

\* Where an operator has done something, and what it has left to write down.
Doing(o) ==
    /\ op[o].pc \notin {"audit", "done"} => op[o].did = "nothing"
    /\ NothingConfirmed => /\ op[o].pc \notin {"confirm", "audit"}
                           /\ "reconcile" \notin Actions => op[o].pc # "probe"
    /\ op[o].pc = "audit" => op[o].did = "confirmed"
    /\ OneTransaction /\ op[o].pc = "audit" =>
          receipt # NoRow /\ receipt.opts = op[o].opts

Alone == OneTransaction =>
    \A o, q \in Operators : {op[o].pc, op[q].pc} \cap {"idle", "done"} = {} => o = q

LInv == TInv /\ Alone /\ (\A o \in Operators : Doing(o)) /\ audited = Cardinality({o \in Operators : Did(o)})

\* A step of one operator that is in the log afterwards as often as before ...
LEMMA LogSame ==
    ASSUME op' \in [Operators -> OpLocals], audited = Cardinality({o \in Operators : Did(o)}),
           audited' = audited, \A o \in Operators : Did(o)' <=> Did(o)
    PROVE  audited' = Cardinality({o \in Operators : Did(o)})'
<1>1. {o \in Operators : Did(o)}' = {o \in Operators : Did(o)}
  OBVIOUS
<1>. QED BY <1>1

\* ... or once more.
LEMMA LogMore ==
    ASSUME IsFiniteSet(Operators), audited = Cardinality({o \in Operators : Did(o)}),
           audited' = audited + 1, NEW o \in Operators, ~Did(o), Did(o)',
           \A q \in Operators \ {o} : Did(q)' <=> Did(q)
    PROVE  audited' = Cardinality({q \in Operators : Did(q)})'
<1> DEFINE D == {q \in Operators : Did(q)}
<1>1. IsFiniteSet(D) /\ o \notin D
  BY FS_Subset
<1>2. D' = D \cup {o}
  OBVIOUS
<1>3. Cardinality(D \cup {o}) = Cardinality(D) + 1
  BY <1>1, FS_AddElement
<1>. QED BY <1>2, <1>3

\* At first nobody has done anything.
LEMMA LogInit == Init => LInv
<1> SUFFICES ASSUME Init PROVE LInv
  OBVIOUS
<1>1. TInv
  BY TypeInit
<1>2. \A o \in Operators : op[o].pc = "idle" /\ op[o].did = "nothing"
  BY DEF Init
<1>3. Alone /\ \A o \in Operators : Doing(o)
  BY <1>2 DEF Alone, Doing
<1>4. {o \in Operators : Did(o)} = {} /\ audited = 0
  BY <1>2 DEF Did, Init
<1>. QED BY <1>1, <1>3, <1>4, FS_EmptySet DEF LInv

\* A request keeps the row an operator has confirmed.
LEMMA LogRequest ==
    ASSUME LInv, NEW r \in Requests, Start(r) \/ Request(r), TInv' PROVE LInv'
<1>1. op' = op /\ audited' = audited
  BY RequestShape DEF LInv, ReqShape, ReqFrame
<1>2. receipt # NoRow => receipt' # NoRow /\ receipt'.opts = receipt.opts
  <2>1. ReqShape(r) /\ receipt \in Rows
    BY RequestShape DEF LInv, TInv, TypeOK, Rows
  <2>2. ASSUME NEW s \in {"succeeded", "unknown"}, Resolves(r, s)
        PROVE  receipt # NoRow => receipt' # NoRow /\ receipt'.opts = receipt.opts
    BY <2>1, <2>2 DEF Resolves, Rows, NoRow
  <2>. QED BY <2>1, <2>2 DEF ReqShape, Claims, Keeps
<1>3. Alone' /\ \A o \in Operators : Doing(o)'
  BY <1>1, <1>2 DEF LInv, Alone, Doing
<1>4. audited' = Cardinality({o \in Operators : Did(o)})'
  BY <1>1 DEF LInv, Did
<1>. QED BY <1>3, <1>4 DEF LInv

\* Every step of an operator that does something is in the log with it, or before it is done.
LEMMA LogOperator ==
    ASSUME Logged, LInv, NEW o \in Operators, ReadReceipt(o) \/ Operate(o), TInv' PROVE LInv'
<1>1. /\ op \in [Operators -> OpLocals] /\ op' \in [Operators -> OpLocals] /\ receipt \in Rows
      /\ audited \in Nat /\ Alone /\ Doing(o) /\ audited = Cardinality({q \in Operators : Did(q)})
      /\ \A q \in Operators : Doing(q)
  BY DEF LInv, TInv, TypeOK, OpLocals, Rows
<1>2. \A q \in Operators \ {o} : op'[q] = op[q]
  BY OperatorShape DEF LInv, OpShape, OpFrame
<1>3. \A p : OpGoTo(o, p) => op'[o].pc = p /\ op'[o].did = op[o].did /\ op'[o].opts = op[o].opts
  BY <1>1 DEF OpGoTo, OpLocals
<1>4. \A a : OpAnswer(o, a) => op'[o].pc = "done" /\ op'[o].did = op[o].did
  BY <1>1 DEF OpAnswer, OpLocals
\* Whoever is alone at work has the row to itself.
<1>5. op[o].pc # "idle" \/ ReadReceipt(o)
  BY DEF Operate, ProbeRemote, Confirm, AppendAudit, Reset
<1>6. Alone'
  <2>1. ReadReceipt(o) /\ OneTransaction => \A q \in Operators : op[q].pc \in {"idle", "done"}
    BY DEF ReadReceipt, OneTransaction
  <2>2. Operate(o) => op[o].pc \notin {"idle", "done"}
    BY DEF Operate, ProbeRemote, Confirm, AppendAudit, Reset
  <2>3. Alone' \/ OneTransaction
    BY DEF Alone
  <2>4. ASSUME OneTransaction, NEW p \in Operators, NEW q \in Operators,
               {op'[p].pc, op'[q].pc} \cap {"idle", "done"} = {}
        PROVE  p = q
    <3>1. p # o => op[p].pc \notin {"idle", "done"}
      BY <1>2, <2>4
    <3>2. q # o => op[q].pc \notin {"idle", "done"}
      BY <1>2, <2>4
    <3>3. CASE ReadReceipt(o)
      BY <2>1, <2>4, <3>1, <3>2, <3>3
    <3>4. CASE Operate(o)
      BY <1>1, <2>2, <2>4, <3>1, <3>2, <3>4 DEF Alone
    <3>. QED BY <3>3, <3>4
  <2>. QED BY <2>4 DEF Alone
\* The row changes under nobody else's confirmation.
<1>7. ASSUME NEW q \in Operators \ {o} PROVE Doing(q)'
  <2>1. op'[q] = op[q] /\ Doing(q)
    BY <1>1, <1>2
  <2>2. OneTransaction /\ op[q].pc = "audit" => ~Operate(o)
    <3>1. Operate(o) => op[o].pc \notin {"idle", "done"}
      BY DEF Operate, ProbeRemote, Confirm, AppendAudit, Reset
    <3>. QED BY <1>1, <3>1 DEF Alone
  <2>3. ReadReceipt(o) => receipt' = receipt
    BY DEF ReadReceipt
  <2>. QED BY <2>1, <2>2, <2>3 DEF Doing
<1>8. \A q \in Operators \ {o} : Did(q)' <=> Did(q)
  BY <1>2 DEF Did
<1>9. CASE /\ audited' = audited /\ Doing(o)' /\ (Did(o)' <=> Did(o))
  <2>1. audited' = Cardinality({q \in Operators : Did(q)})'
    BY <1>1, <1>8, <1>9, LogSame
  <2>. QED BY <1>6, <1>7, <1>9, <2>1 DEF LInv
<1>10. CASE /\ audited' = audited + 1 /\ Doing(o)' /\ Did(o)' /\ ~Did(o)
  <2>1. audited' = Cardinality({q \in Operators : Did(q)})'
    BY <1>1, <1>8, <1>10, LogMore DEF Logged
  <2>. QED BY <1>6, <1>7, <1>10, <2>1 DEF LInv
<1>11. CASE ReadReceipt(o)
  <2>1. op[o].pc = "idle" /\ audited' = audited /\ receipt' = receipt
    BY <1>11 DEF ReadReceipt
  <2>2. op'[o].did = op[o].did /\ op'[o].pc \in {"done", "reset", "probe"}
        /\ ("reconcile" \notin Actions => op'[o].pc # "probe")
    <3>1. PICK act \in Actions :
            \/ receipt = NoRow /\ OpAnswer(o, "404")
            \/ act = "reconcile" /\ receipt.state = "succeeded" /\ OpAnswer(o, "200")
            \/ op' = [op EXCEPT ![o].act = act, ![o].opts = receipt.opts,
                                ![o].pc = IF act = "reset" THEN "reset" ELSE "probe"]
      BY <1>11 DEF ReadReceipt
    <3>2. CASE op' = [op EXCEPT ![o].act = act, ![o].opts = receipt.opts,
                                ![o].pc = IF act = "reset" THEN "reset" ELSE "probe"]
      <4>1. op'[o].did = op[o].did /\ op'[o].pc = IF act = "reset" THEN "reset" ELSE "probe"
        BY <1>1, <3>2 DEF OpLocals
      <4>2. act = "reset" \/ act = "reconcile"
        BY ActionsAssumption
      <4>. QED BY <4>1, <4>2
    <3>. QED BY <1>4, <3>1, <3>2
  <2>3. Doing(o)' /\ (Did(o)' <=> Did(o))
    BY <1>1, <2>1, <2>2 DEF Doing, Did
  <2>. QED BY <1>9, <2>1, <2>3
<1>12. CASE ProbeRemote(o)
  <2>1. /\ op[o].pc = "probe" /\ audited' = audited /\ receipt' = receipt
        /\ op'[o].did = op[o].did /\ op'[o].pc \in {"done", "reset", "confirm"}
        /\ Target # "huggingface" => op'[o].pc = "done"
    BY <1>3, <1>4, <1>12 DEF ProbeRemote
  <2>2. Doing(o)' /\ (Did(o)' <=> Did(o))
    BY <1>1, <2>1 DEF Doing, Did, NothingConfirmed
  <2>. QED BY <1>9, <2>1, <2>2
<1>13. CASE Confirm(o)
  <2>1. op[o].pc = "confirm" /\ audited' = audited /\ op[o].did = "nothing" /\ ~NothingConfirmed
    BY <1>1, <1>13 DEF Confirm, Doing
  <2>2. CASE OpAnswer(o, "503")
    <3>1. Doing(o)' /\ (Did(o)' <=> Did(o))
      BY <1>4, <2>1, <2>2 DEF Doing, Did
    <3>. QED BY <1>9, <2>1, <3>1
  <2>3. CASE /\ receipt.opts = op[o].opts /\ receipt.state \in {"pending", "unknown"}
             /\ receipt' = [receipt EXCEPT !.state = "succeeded"]
             /\ op' = [op EXCEPT ![o].pc = "audit", ![o].did = "confirmed"]
    <3>1. op'[o].pc = "audit" /\ op'[o].did = "confirmed" /\ op'[o].opts = op[o].opts
      BY <1>1, <2>3 DEF OpLocals
    <3>2. receipt' # NoRow /\ receipt'.opts = receipt.opts
      BY <1>1, <2>3 DEF Rows, NoRow
    <3>3. Doing(o)' /\ (Did(o)' <=> Did(o))
      BY <2>1, <2>3, <3>1, <3>2 DEF Doing, Did
    <3>. QED BY <1>9, <2>1, <3>3
  <2>. QED BY <1>13, <2>2, <2>3 DEF Confirm
<1>14. CASE AppendAudit(o)
  <2>1. op[o].pc = "audit" /\ op[o].did = "confirmed" /\ OneTransaction
        /\ receipt.opts = op[o].opts /\ receipt' = receipt
    BY <1>1, <1>14 DEF AppendAudit, Doing, Logged
  <2>2. audited' = audited + 1 /\ op'[o].pc = "done" /\ op'[o].did = "confirmed"
    BY <1>4, <1>14, <2>1 DEF AppendAudit, Fault, OneTransaction
  <2>3. Doing(o)' /\ Did(o)' /\ ~Did(o)
    BY <2>1, <2>2 DEF Doing, Did
  <2>. QED BY <1>10, <2>2, <2>3
<1>15. CASE Reset(o)
  <2>1. op[o].pc = "reset" /\ op[o].did = "nothing"
    BY <1>1, <1>15 DEF Reset, Doing
  <2>2. CASE /\ UNCHANGED <<receipt, audited>>
             /\ OpAnswer(o, "503") \/ OpAnswer(o, "500")
    <3>1. Doing(o)' /\ (Did(o)' <=> Did(o))
      BY <1>4, <2>1, <2>2 DEF Doing, Did
    <3>. QED BY <1>9, <2>2, <3>1
  <2>3. CASE /\ audited' = audited + 1
             /\ op' = [op EXCEPT ![o].pc = "done", ![o].answer = "200", ![o].did = "reset"]
    <3>1. op'[o].pc = "done" /\ op'[o].did = "reset"
      BY <1>1, <2>3 DEF OpLocals
    <3>2. Doing(o)' /\ Did(o)' /\ ~Did(o)
      BY <2>1, <3>1 DEF Doing, Did
    <3>. QED BY <1>10, <2>3, <3>2
  <2>. QED BY <1>15, <2>2, <2>3 DEF Reset
<1>. QED BY <1>11, <1>12, <1>13, <1>14, <1>15 DEF Operate

\* A crash finds no confirmation without its row in the log.
LEMMA LogCrash == ASSUME Logged, LInv, Crash, TInv' PROVE LInv'
<1>1. NothingConfirmed
  BY DEF Crash, Fault, Logged, OneTransaction
<1>2. /\ op \in [Operators -> OpLocals] /\ op' \in [Operators -> OpLocals]
      /\ audited = Cardinality({o \in Operators : Did(o)}) /\ audited' = audited
      /\ \A o \in Operators : Doing(o)
  BY DEF LInv, TInv, TypeOK, OpLocals, Crash
<1>3. ASSUME NEW o \in Operators
      PROVE  op'[o].did = op[o].did /\ op'[o].pc = (IF op[o].pc = "idle" THEN "idle" ELSE "done")
  <2>1. op' = [q \in Operators |-> IF op[q].pc = "idle" THEN op[q] ELSE [op[q] EXCEPT !.pc = "done"]]
    BY DEF Crash
  <2>. QED BY <1>2, <2>1 DEF OpLocals
<1>4. \A o \in Operators : Doing(o)' /\ (Did(o)' <=> Did(o))
  BY <1>1, <1>2, <1>3 DEF Doing, Did
<1>5. Alone'
  BY <1>3 DEF Alone
<1>6. audited' = Cardinality({o \in Operators : Did(o)})'
  BY <1>2, <1>4, LogSame
<1>. QED BY <1>4, <1>5, <1>6 DEF LInv

\* Every confirmation and reset is in the log its owner reads, where nothing is confirmed or
\* nothing comes between a confirmation and its row in the log: reset writes the two in one
\* transaction, reconcile in two (PublishReceiptStore.reset, reconcile_succeeded).
THEOREM LogIsComplete == ASSUME Logged PROVE Spec => []AuditComplete
<1>1. LInv /\ [Next]_vars => LInv'
  <2> SUFFICES ASSUME LInv, [Next]_vars PROVE LInv'
    OBVIOUS
  <2>1. TInv'
    BY TypeStep DEF LInv
  <2>2. CASE RunEnds \/ UNCHANGED vars
    <3>1. UNCHANGED <<receipt, audited, op>>
      BY <2>2 DEF RunEnds, vars
    <3>. QED BY <2>1, <3>1 DEF LInv, Alone, Doing, Did
  <2>. QED BY <2>1, <2>2, LogRequest, LogOperator, LogCrash DEF Next
<1>2. Spec => []LInv
  BY <1>1, LogInit, PTL DEF Spec
<1>3. LInv => AuditComplete
  BY DEF LInv, Did, AuditComplete
<1>. QED BY <1>2, <1>3, PTL
=============================================================================
