--------------------------- MODULE PipelineProofs ---------------------------
(***************************************************************************)
(* Theorems about Pipeline, for every set of sources, grid, composition,   *)
(* parameter version and number of attempts, incidents and lost appends.   *)
(*                                                                         *)
(* The properties relate what is on disk, in the tables and in the event   *)
(* log to the attempt in progress.  Their inductive invariants are layered *)
(* on Typed: the types of the records, and the stages a source at each     *)
(* point of its thread has completed.                                      *)
(***************************************************************************)
EXTENDS Pipeline, FiniteSetTheorems, SequenceTheorems, TLAPS

Pcs == {"idle", "fetch", "fetched", "persisted", "bronze", "silvered", "golded", "export", "ended"}
Early == {"idle", "fetch", "fetched", "persisted"}
Progress == {<<>>, <<"bronze">>, <<"bronze", "silver">>, <<"bronze", "silver", "gold">>}
Whole == <<"bronze", "silver", "gold">>
ParamSet == (1 .. NCombos) \X Versions
RecSet == [att : Nat, params : ParamSet]
LineSet == [c : 1 .. NCombos, params : ParamSet, readable : BOOLEAN, open : BOOLEAN]
CkptSet == [frags : [1 .. NCombos -> Seq(RecSet)], index : Seq(LineSet)]
DiskSet == [staging : BOOLEAN, bronze : Seq(RecSet), silver : Nat, gold : Nat, export : Nat]
EventSet == {"completed", "failed"} \X {"fetch", "bronze", "silver", "gold", "export"}
SourceSet ==
    [pc : Pcs, k : Nat, resumed : SUBSET (1 .. NCombos), staged : Seq(RecSet), completed : Progress,
     fetched : BOOLEAN, exporting : BOOLEAN, status : {"running", "ok", "failed", "cancelled"},
     silver : Nat, declared : BOOLEAN, kept : SUBSET ParamSet]
RunSet ==
    [phase : {"idle", "sources", "merged", "decided", "done"}, att : Nat, ver : Nat,
     cancel : BOOLEAN, cancelled : BOOLEAN, status : {"none", "ok", "failed", "cancelled"},
     comp : {"none", "ok", "failed", "skipped"}, revs : [Sources -> Nat], todo : SUBSET Sources,
     conflicts : SUBSET Sources, dropped : SUBSET (Sources \X EventSet)]
ManifestSet ==
    [att : Nat, status : {"none", "ok", "failed", "cancelled"}, ok : SUBSET Sources,
     resumed : SUBSET Sources, warnings : SUBSET (Sources \X EventSet), conflicts : SUBSET Sources,
     stages : [Sources -> Progress]]

Types ==
    /\ run \in RunSet
    /\ src \in [Sources -> SourceSet]
    /\ ckpt \in [Sources -> CkptSet]
    /\ disk \in [Sources -> DiskSet]
    /\ composed \in [att : Nat, unmasked : SUBSET Sources]
    /\ table \in [Sources -> [rev : Nat, by : Nat]]
    /\ manifest \in ManifestSet
    /\ log \in [Sources -> SUBSET EventSet]
    /\ budget \in Nat

\* How many calls a source's fetch makes.
NCalls(s) == IF s \in Grid THEN NCombos ELSE 1

\* What a source at each point of its thread has completed, and which call its fetch is at.
Placed(s) ==
    /\ src[s].status = "running" <=> src[s].pc # "ended"
    /\ src[s].pc \in Early => src[s].completed = <<>>
    /\ src[s].pc = "idle" =>
          /\ src[s].k = 1 /\ src[s].resumed = {} /\ src[s].staged = <<>> /\ src[s].silver = NoRun
          /\ ~src[s].fetched /\ ~src[s].declared
    /\ src[s].pc = "fetch" =>
          src[s].k \in 1 .. NCalls(s) /\ \A c \in src[s].resumed : ckpt[s].frags[c] # <<>>
    /\ src[s].pc = "bronze" => src[s].completed = <<"bronze">>
    /\ src[s].pc = "silvered" => src[s].completed = <<"bronze", "silver">>
    /\ src[s].pc \in {"golded", "export"} => src[s].completed = Whole
    /\ src[s].pc = "export" <=> src[s].exporting /\ src[s].pc # "ended"
    /\ src[s].status = "ok" => src[s].completed = Whole

\* An attempt in progress has a number and a version of the specification.
Numbered ==
    /\ run.phase # "idle" => run.att > 0 /\ run.ver \in Versions
    /\ run.phase \notin {"idle", "sources"} => AllEnded

Typed == Types /\ Numbered /\ \A s \in Sources : Placed(s)

-----------------------------------------------------------------------------
LEMMA CallCount ==
    ASSUME NEW s \in Sources
    PROVE  Cardinality(Calls(s)) = NCalls(s) /\ NCalls(s) \in 1 .. NCombos /\ NCombos \in Nat
<1>1. NCombos \in Nat \ {0}
  BY PipelineAssumption
<1>2. CASE s \in Grid
  BY <1>1, <1>2, FS_Interval DEF Calls, NCalls
<1>3. CASE s \notin Grid
  <2>1. Calls(s) = {1} /\ NCalls(s) = 1
    BY <1>3 DEF Calls, NCalls
  <2>2. Cardinality({1}) = 1
    BY FS_Singleton
  <2> QED BY <1>1, <2>1, <2>2
<1> QED BY <1>2, <1>3

\* Recording events: what the log gains and what the warnings gain are the events, together.
LEMMA RecordEffect ==
    ASSUME Types, NEW s \in Sources, NEW E \in SUBSET EventSet, Record(s, E)
    PROVE  /\ run' \in RunSet /\ log' \in [Sources -> SUBSET EventSet]
           /\ \E D \in SUBSET (Sources \X EventSet) :
                 /\ run' = [run EXCEPT !.dropped = D]
                 /\ run.dropped \subseteq D
                 /\ \A t \in Sources : t # s => \A e : <<t, e>> \in D <=> <<t, e>> \in run.dropped
                 /\ \A e : e \in log'[s] \/ <<s, e>> \in D
                           <=> e \in log[s] \/ <<s, e>> \in run.dropped \/ e \in E
           /\ \A t \in Sources : t # s => log'[t] = log[t]
           /\ log'[s] \subseteq log[s] \cup E
<1> USE DEF Types
<1>1. CASE log' = [log EXCEPT ![s] = @ \cup E] /\ UNCHANGED run
  <2>1. run' = [run EXCEPT !.dropped = run.dropped] /\ run.dropped \in SUBSET (Sources \X EventSet)
    BY <1>1 DEF RunSet
  <2> QED BY <1>1, <2>1
<1>2. ASSUME NEW lost \in E, log' = [log EXCEPT ![s] = @ \cup (E \ {lost})],
             run' = [run EXCEPT !.dropped = @ \cup {<<s, lost>>}]
      PROVE  /\ run' \in RunSet /\ log' \in [Sources -> SUBSET EventSet]
             /\ \E D \in SUBSET (Sources \X EventSet) :
                   /\ run' = [run EXCEPT !.dropped = D]
                   /\ run.dropped \subseteq D
                   /\ \A t \in Sources : t # s => \A e : <<t, e>> \in D <=> <<t, e>> \in run.dropped
                   /\ \A e : e \in log'[s] \/ <<s, e>> \in D
                             <=> e \in log[s] \/ <<s, e>> \in run.dropped \/ e \in E
             /\ \A t \in Sources : t # s => log'[t] = log[t]
             /\ log'[s] \subseteq log[s] \cup E
  <2> DEFINE D == run.dropped \cup {<<s, lost>>}
  <2>1. D \in SUBSET (Sources \X EventSet) /\ run' = [run EXCEPT !.dropped = D]
    BY <1>2 DEF RunSet
  <2>2. run' \in RunSet /\ log' \in [Sources -> SUBSET EventSet]
    BY <1>2, <2>1 DEF RunSet
  <2>3. log'[s] = log[s] \cup (E \ {lost}) /\ \A t \in Sources : t # s => log'[t] = log[t]
    BY <1>2
  <2>4. /\ \A t \in Sources : t # s => \A e : <<t, e>> \in D <=> <<t, e>> \in run.dropped
        /\ \A e : <<s, e>> \in D <=> <<s, e>> \in run.dropped \/ e = lost
    OBVIOUS
  <2>5. \A e : e \in log'[s] \/ <<s, e>> \in D
               <=> e \in log[s] \/ <<s, e>> \in run.dropped \/ e \in E
    BY <2>3, <2>4
  <2> QED BY <2>1, <2>2, <2>3, <2>4, <2>5
<1> QED BY <1>1, <1>2 DEF Record

\* Every index line appended, torn or not, leaves an index of lines.
LEMMA AppendLineType ==
    ASSUME NEW ix \in Seq(LineSet), NEW line \in LineSet
    PROVE  AppendLine(ix, line) \in Seq(LineSet)
<1>1. CASE ix # <<>> /\ Last(ix).open
  <2>1. Len(ix) \in Nat \ {0}
    BY <1>1, LenProperties, EmptySeq
  <2>2. Last(ix) \in LineSet
    BY <2>1, ElementOfSeq DEF Last
  <2>3. Front(ix) \in Seq(LineSet)
    <3>1. Len(ix) - 1 \in Nat /\ \A i \in 1 .. Len(ix) - 1 : ix[i] \in LineSet
      BY <2>1, ElementOfSeq
    <3> QED BY <2>1, <3>1, SubSeqProperties DEF Front
  <2>4. [Last(ix) EXCEPT !.readable = FALSE, !.open = FALSE] \in LineSet
    BY <2>2 DEF LineSet
  <2> QED BY <1>1, <2>3, <2>4, AppendProperties DEF AppendLine
<1>2. CASE ~(ix # <<>> /\ Last(ix).open)
  BY <1>2, AppendProperties DEF AppendLine
<1> QED BY <1>1, <1>2

\* The records a call puts into the working copy, and what it leaves of the checkpoint.
LEMMA CallType ==
    ASSUME NEW s \in Sources, Types, Placed(s), run.ver \in Versions, src[s].pc = "fetch"
    PROVE  /\ src[s].k \in 1 .. NCombos
           /\ Params(src[s].k, run.ver) \in ParamSet
           /\ CallRec(s) \in RecSet
           /\ Checkpointed(s) \in CkptSet
<1> USE DEF Types
<1>1. src[s].k \in 1 .. NCombos
  BY CallCount DEF Placed
<1>2. Params(src[s].k, run.ver) \in ParamSet
  BY <1>1 DEF Params, ParamSet
<1>3. run.att \in Nat /\ ckpt[s] \in CkptSet
  BY DEF RunSet
<1>4. CallRec(s) \in RecSet
  <2>1. CASE src[s].k \in src[s].resumed
    <3>1. ckpt[s].frags[src[s].k] \in Seq(RecSet) /\ ckpt[s].frags[src[s].k] # <<>>
      BY <1>1, <1>3, <2>1 DEF CkptSet, Placed
    <3>2. ckpt[s].frags[src[s].k][1] \in RecSet
      BY <3>1, LenProperties, EmptySeq, ElementOfSeq
    <3> QED BY <2>1, <3>2 DEF CallRec
  <2>2. CASE src[s].k \notin src[s].resumed
    BY <1>2, <1>3, <2>2 DEF CallRec, Rec, RecSet
  <2> QED BY <2>1, <2>2
<1>5. Checkpointed(s) \in CkptSet
  <2> DEFINE c == src[s].k
             line == [c |-> c, params |-> Params(c, run.ver), readable |-> TRUE, open |-> FALSE]
  <2>1. line \in LineSet
    BY <1>1, <1>2 DEF LineSet
  <2> HIDE DEF line
  <2>2. AppendLine(ckpt[s].index, line) \in Seq(LineSet)
    BY <1>3, <2>1, AppendLineType DEF CkptSet
  <2>3. [ckpt[s].frags EXCEPT ![c] = <<CallRec(s)>>] \in [1 .. NCombos -> Seq(RecSet)]
    BY <1>1, <1>3, <1>4 DEF CkptSet
  <2> QED BY <1>3, <2>2, <2>3 DEF Checkpointed, CkptSet, line
<1> QED BY <1>1, <1>2, <1>4, <1>5

\* What one source's step keeps of the run: everything but the warnings.
SameRun ==
    \E D \in SUBSET (Sources \X EventSet) : run' = [run EXCEPT !.dropped = D] /\ run.dropped \subseteq D

LEMMA SameRunFields ==
    ASSUME Types, SameRun
    PROVE  /\ run' \in RunSet
           /\ run'.phase = run.phase /\ run'.att = run.att /\ run'.ver = run.ver
           /\ run'.status = run.status /\ run'.comp = run.comp /\ run'.revs = run.revs
           /\ run'.todo = run.todo /\ run'.conflicts = run.conflicts
           /\ run'.cancel = run.cancel /\ run'.cancelled = run.cancelled
           /\ run.dropped \subseteq run'.dropped
<1> PICK D \in SUBSET (Sources \X EventSet) : run' = [run EXCEPT !.dropped = D] /\ run.dropped \subseteq D
  BY DEF SameRun
<1> QED BY DEF Types, RunSet

LEMMA StillRun ==
    ASSUME Types, UNCHANGED run
    PROVE  SameRun
BY DEF Types, RunSet, SameRun

\* A step of a source, or its failure, touches that source alone and keeps the rest of the run.
LEMMA SourceFrame ==
    ASSUME Types, NEW s \in Sources, SourceStep(s) \/ Fail(s)
    PROVE  /\ run.phase = "sources" /\ src[s].status = "running"
           /\ UNCHANGED <<composed, table, manifest>>
           /\ budget' \in Nat
           /\ \A t \in Sources : t # s => src'[t] = src[t] /\ ckpt'[t] = ckpt[t] /\ disk'[t] = disk[t]
                                          /\ log'[t] = log[t]
<1> USE DEF Types
<1>1. run.phase = "sources" /\ src[s].status = "running"
  BY DEF SourceStep, BeginFetch, FetchCall, PersistBronze, SealBronze, Silver, Gold, Stage, StartExport,
     FinishExport, Fail, InRun
<1>2. UNCHANGED <<composed, table, manifest>>
  BY DEF SourceStep, BeginFetch, FetchCall, PersistBronze, SealBronze, Silver, Gold, Stage, StartExport,
     FinishExport, Fail, CancelAt
<1>3. budget' \in Nat
  BY DEF SourceStep, BeginFetch, FetchCall, PersistBronze, SealBronze, Silver, Gold, Stage, StartExport,
     FinishExport, Fail, CancelAt
<1>4. \A t \in Sources : t # s => src'[t] = src[t] /\ ckpt'[t] = ckpt[t] /\ disk'[t] = disk[t]
  BY DEF SourceStep, BeginFetch, FetchCall, PersistBronze, SealBronze, Silver, Gold, Stage, StartExport,
     FinishExport, Fail, CancelAt, Ended
<1>5. \A t \in Sources : t # s => log'[t] = log[t]
  BY DEF SourceStep, BeginFetch, FetchCall, PersistBronze, SealBronze, Silver, Gold, Stage, StartExport,
     FinishExport, Fail, CancelAt, Record
<1> QED BY <1>1, <1>2, <1>3, <1>4, <1>5

\* The events of the log are of the declared kinds and stages.
LEMMA EventTypes ==
    /\ \A stage \in {"fetch", "bronze", "silver", "gold", "export"} : {Ev("completed", stage)} \in SUBSET EventSet
    /\ \A s \in Sources : Types => FailEvents(src[s]) \in SUBSET EventSet
<1>1. \A kind \in {"completed", "failed"}, stage \in {"fetch", "bronze", "silver", "gold", "export"} :
          Ev(kind, stage) \in EventSet
  BY DEF Ev, EventSet
<1>2. ASSUME NEW s \in Sources, Types PROVE FailEvents(src[s]) \in SUBSET EventSet
  <2>1. src[s].completed \in Progress
    BY <1>2 DEF Types, SourceSet
  <2>2. FailedStages(src[s]) \subseteq {"bronze", "silver", "gold", "export"}
    BY <2>1 DEF FailedStages, Stages, Progress
  <2> QED BY <1>1, <2>2 DEF FailEvents
<1> QED BY <1>1, <1>2

\* A source's step keeps the run, but for the warnings.
LEMMA SourceKeepsRun ==
    ASSUME Types, NEW s \in Sources, SourceStep(s) \/ Fail(s)
    PROVE  SameRun /\ log' \in [Sources -> SUBSET EventSet]
<1>1. ASSUME NEW E \in SUBSET EventSet, Record(s, E) PROVE SameRun /\ log' \in [Sources -> SUBSET EventSet]
  BY <1>1, RecordEffect DEF SameRun
<1>2. CASE UNCHANGED <<run, log>>
  BY <1>2, StillRun DEF Types
<1>3. CASE Fail(s)
  BY <1>1, <1>3, EventTypes DEF Fail
<1>4. CASE BeginFetch(s) \/ StartExport(s) \/ PersistBronze(s)
  BY <1>2, <1>4 DEF BeginFetch, StartExport, PersistBronze, CancelAt
<1>5. CASE FetchCall(s)
  BY <1>1, <1>2, <1>5, EventTypes DEF FetchCall
<1>6. CASE SealBronze(s) \/ FinishExport(s)
  BY <1>1, <1>6, EventTypes DEF SealBronze, FinishExport
<1>7. CASE Silver(s) \/ Gold(s)
  BY <1>1, <1>2, <1>7, EventTypes DEF Silver, Gold, Stage, CancelAt
<1> QED BY <1>3, <1>4, <1>5, <1>6, <1>7 DEF SourceStep

\* A source's step preserves the types and the places when it does so for that source.
LEMMA TypedFrom ==
    ASSUME Typed, NEW s \in Sources, SourceStep(s) \/ Fail(s),
           src' \in [Sources -> SourceSet], ckpt' \in [Sources -> CkptSet], disk' \in [Sources -> DiskSet],
           Placed(s)'
    PROVE  Typed'
<1> USE DEF Typed
<1>1. /\ run' \in RunSet /\ log' \in [Sources -> SUBSET EventSet] /\ run'.phase = "sources"
      /\ run.phase = "sources" /\ run'.att = run.att /\ run'.ver = run.ver
      /\ UNCHANGED <<composed, table, manifest>> /\ budget' \in Nat
  BY SourceFrame, SourceKeepsRun, SameRunFields
<1>2. \A t \in Sources : t # s => src'[t] = src[t] /\ ckpt'[t] = ckpt[t]
  BY SourceFrame
<1>3. Types' /\ Numbered'
  BY <1>1 DEF Types, Numbered
<1>4. ASSUME NEW t \in Sources PROVE Placed(t)'
  <2>1. CASE t = s
    BY <2>1
  <2>2. CASE t # s
    <3>1. Placed(t) /\ src'[t] = src[t] /\ ckpt'[t] = ckpt[t]
      BY <1>2, <2>2
    <3> QED BY <3>1 DEF Placed
  <2> QED BY <2>1, <2>2
<1> QED BY <1>3, <1>4

\* A source that ends keeps what it completed.
LEMMA EndedType ==
    ASSUME Typed, NEW s \in Sources, NEW x \in SourceSet, x.status \in {"failed", "cancelled"},
           UNCHANGED ckpt, Ended(s, x)
    PROVE  /\ src' \in [Sources -> SourceSet] /\ ckpt' \in [Sources -> CkptSet]
           /\ disk' \in [Sources -> DiskSet] /\ Placed(s)'
<1> USE DEF Typed, Types
<1>1. src'[s] = [x EXCEPT !.pc = "ended"] /\ [x EXCEPT !.pc = "ended"] \in SourceSet
  BY DEF Ended, SourceSet, Pcs
<1>2. src' \in [Sources -> SourceSet]
  BY <1>1 DEF Ended
<1>3. disk' \in [Sources -> DiskSet]
  BY DEF Ended, DiskSet
<1>4. src'[s].pc = "ended" /\ src'[s].status = x.status
  BY <1>1 DEF SourceSet
<1>5. Placed(s)'
  BY <1>4 DEF Placed, Early
<1> QED BY <1>2, <1>3, <1>5

\* Replacing a field of a source's progress by a value of its type keeps the type.
LEMMA FieldUpdate ==
    ASSUME NEW x \in SourceSet
    PROVE  /\ \A p \in Pcs : [x EXCEPT !.pc = p] \in SourceSet
           /\ \A n \in Nat : [x EXCEPT !.k = n] \in SourceSet
           /\ \A R \in SUBSET (1 .. NCombos) : [x EXCEPT !.resumed = R] \in SourceSet
           /\ \A A \in Seq(RecSet) : [x EXCEPT !.staged = A] \in SourceSet
           /\ \A C \in Progress : [x EXCEPT !.completed = C] \in SourceSet
           /\ \A b \in BOOLEAN : [x EXCEPT !.fetched = b] \in SourceSet
           /\ \A K \in SUBSET ParamSet : [x EXCEPT !.kept = K] \in SourceSet
BY DEF SourceSet

LEMMA SourceUpdate ==
    ASSUME NEW x \in SourceSet, NEW p \in Pcs, NEW K \in SUBSET ParamSet
    PROVE  /\ \A A \in Seq(RecSet), n \in Nat, b \in BOOLEAN :
                 [x EXCEPT !.staged = A, !.k = n, !.pc = p, !.fetched = b, !.kept = K] \in SourceSet
           /\ \A R \in SUBSET (1 .. NCombos) : [x EXCEPT !.pc = p, !.resumed = R, !.kept = K] \in SourceSet
<1>1. ASSUME NEW A \in Seq(RecSet), NEW n \in Nat, NEW b \in BOOLEAN
      PROVE  [x EXCEPT !.staged = A, !.k = n, !.pc = p, !.fetched = b, !.kept = K] \in SourceSet
  <2> DEFINE x1 == [x EXCEPT !.staged = A]
             x2 == [x1 EXCEPT !.k = n]
             x3 == [x2 EXCEPT !.pc = p]
             x4 == [x3 EXCEPT !.fetched = b]
             x5 == [x4 EXCEPT !.kept = K]
  <2>0. [x EXCEPT !.staged = A, !.k = n, !.pc = p, !.fetched = b, !.kept = K] = x5
    OBVIOUS
  <2>1. x1 \in SourceSet
    BY FieldUpdate
  <2> HIDE DEF x1
  <2>2. x2 \in SourceSet
    BY <2>1, FieldUpdate
  <2> HIDE DEF x2
  <2>3. x3 \in SourceSet
    BY <2>2, FieldUpdate
  <2> HIDE DEF x3
  <2>4. x4 \in SourceSet
    BY <2>3, FieldUpdate
  <2> HIDE DEF x4
  <2>5. x5 \in SourceSet
    BY <2>4, FieldUpdate
  <2> HIDE DEF x5
  <2> QED BY <2>0, <2>5
<1>2. ASSUME NEW R \in SUBSET (1 .. NCombos)
      PROVE  [x EXCEPT !.pc = p, !.resumed = R, !.kept = K] \in SourceSet
  <2> DEFINE x1 == [x EXCEPT !.pc = p]
             x2 == [x1 EXCEPT !.resumed = R]
             x3 == [x2 EXCEPT !.kept = K]
  <2>0. [x EXCEPT !.pc = p, !.resumed = R, !.kept = K] = x3
    OBVIOUS
  <2>1. x1 \in SourceSet
    BY FieldUpdate
  <2> HIDE DEF x1
  <2>2. x2 \in SourceSet
    BY <2>1, FieldUpdate
  <2> HIDE DEF x2
  <2>3. x3 \in SourceSet
    BY <2>2, FieldUpdate
  <2> HIDE DEF x3
  <2> QED BY <2>0, <2>3
<1> QED BY <1>1, <1>2

LEMMA TypedBegin ==
    ASSUME Typed, NEW s \in Sources, BeginFetch(s)
    PROVE  Typed'
<1> USE DEF Typed, Types
<1> DEFINE loaded == IF s \in Grid THEN Load(ckpt[s], run.ver) ELSE [ckpt |-> ckpt[s], done |-> {}]
<1>1. CASE CancelAt(s)
  <2>1. [src[s] EXCEPT !.status = "cancelled"] \in SourceSet /\ [src[s] EXCEPT !.status = "cancelled"].status = "cancelled"
    BY DEF SourceSet
  <2> QED BY <1>1, <2>1, EndedType, TypedFrom DEF CancelAt, SourceStep
<1>2. CASE ~CancelAt(s)
  <2>1. /\ ckpt' = [ckpt EXCEPT ![s] = loaded.ckpt]
        /\ disk' = [disk EXCEPT ![s].staging = TRUE]
        /\ src' = [src EXCEPT ![s].pc = "fetch", ![s].resumed = loaded.done,
                            ![s].kept = IF loaded.ckpt = ckpt[s] THEN @ ELSE {}]
        /\ src[s].pc = "idle"
    BY <1>2 DEF BeginFetch
  <2>2. /\ loaded.ckpt \in CkptSet /\ loaded.done \in SUBSET (1 .. NCombos)
        /\ \A c \in loaded.done : loaded.ckpt.frags[c] # <<>>
    <3>1. ckpt[s] \in CkptSet /\ NCombos \in Nat
      BY CallCount
    <3>2. CASE s \in Grid /\ LoadOk(ckpt[s], run.ver)
      <4>1. loaded = [ckpt |-> ckpt[s], done |-> {l.c : l \in KnownLines(ckpt[s].index)}]
        BY <3>2 DEF Load
      <4>2. \A l \in KnownLines(ckpt[s].index) : l \in LineSet
        BY <3>1, ElementOfSeq, LenProperties DEF KnownLines, CkptSet
      <4>3. \A l \in KnownLines(ckpt[s].index) : l.c \in 1 .. NCombos /\ ckpt[s].frags[l.c] # <<>>
        BY <3>2, <4>2 DEF LoadOk, Matches, LineSet
      <4> DEFINE known == {l.c : l \in KnownLines(ckpt[s].index)}
      <4>4. known \in SUBSET (1 .. NCombos) /\ \A c \in known : ckpt[s].frags[c] # <<>>
        BY <4>3
      <4>5. loaded = [ckpt |-> ckpt[s], done |-> known]
        BY <4>1
      <4> HIDE DEF loaded, known
      <4>6. loaded.ckpt = ckpt[s] /\ loaded.done = known
        BY <4>5
      <4> QED BY <3>1, <4>4, <4>6
    <3>3. CASE s \in Grid /\ ~LoadOk(ckpt[s], run.ver)
      <4>1. loaded = [ckpt |-> NoCkpt, done |-> {}]
        BY <3>3 DEF Load
      <4>2. NoCkpt \in CkptSet
        BY <3>1, EmptySeq DEF NoCkpt, NoFrags, CkptSet
      <4> QED BY <4>1, <4>2
    <3>4. CASE s \notin Grid
      BY <3>1, <3>4
    <3> QED BY <3>2, <3>3, <3>4
  <2>3. src[s].k = 1 /\ src[s].completed = <<>> /\ src[s].status = "running" /\ ~src[s].exporting
    BY <2>1 DEF Placed, Early
  <2> HIDE DEF loaded
  <2>4. ckpt' \in [Sources -> CkptSet] /\ disk' \in [Sources -> DiskSet]
    BY <2>1, <2>2 DEF DiskSet
  <2>5. src' \in [Sources -> SourceSet]
    <3>1. PICK K \in SUBSET ParamSet :
              src' = [src EXCEPT ![s].pc = "fetch", ![s].resumed = loaded.done, ![s].kept = K]
      BY <2>1 DEF SourceSet
    <3>2. "fetch" \in Pcs
      BY DEF Pcs
    <3>3. src' = [src EXCEPT ![s] = [src[s] EXCEPT !.pc = "fetch", !.resumed = loaded.done, !.kept = K]]
      BY <3>1
    <3>4. [src[s] EXCEPT !.pc = "fetch", !.resumed = loaded.done, !.kept = K] \in SourceSet
      BY <2>2, <3>2, SourceUpdate
    <3> QED BY <3>3, <3>4
  <2>6. /\ src'[s].pc = "fetch" /\ src'[s].resumed = loaded.done /\ ckpt'[s] = loaded.ckpt
        /\ src'[s].k = 1 /\ src'[s].completed = <<>> /\ src'[s].status = "running"
        /\ src'[s].exporting = FALSE
    BY <2>1, <2>3 DEF SourceSet
  <2>7. Placed(s)'
    BY <2>2, <2>6, CallCount DEF Placed, Early
  <2> QED BY <2>4, <2>5, <2>7, TypedFrom DEF SourceStep
<1> QED BY <1>1, <1>2

\* What a call makes of the source.
LEMMA CallTyped ==
    ASSUME Typed, NEW s \in Sources, FetchCall(s)
    PROVE  AfterCall(s) \in SourceSet
<1> USE DEF Typed, Types
<1> DEFINE x == AfterCall(s)
<1>1. run.ver \in Versions /\ src[s].pc = "fetch" /\ src[s].status = "running"
  BY DEF FetchCall, InRun, Numbered
<1>2. /\ src[s].k \in 1 .. NCombos /\ Params(src[s].k, run.ver) \in ParamSet
      /\ CallRec(s) \in RecSet /\ Checkpointed(s) \in CkptSet
  BY <1>1, CallType
<1>3. x \in SourceSet
  <2> DEFINE A == Append(src[s].staged, CallRec(s))
             n == src[s].k + 1
             b == (src[s].k = Cardinality(Calls(s)))
             p == IF src[s].k = Cardinality(Calls(s)) THEN "fetched" ELSE "fetch"
             K == IF s \in Grid THEN src[s].kept \cup {Params(src[s].k, run.ver)} ELSE src[s].kept
  <2>1. A \in Seq(RecSet)
    BY <1>2, AppendProperties DEF SourceSet
  <2>2. n \in Nat
    BY <1>2
  <2>3. b \in BOOLEAN
    OBVIOUS
  <2>4. K \in SUBSET ParamSet
    BY <1>2 DEF SourceSet
  <2>5. p \in Pcs
    BY DEF Pcs
  <2>6. x = [src[s] EXCEPT !.staged = A, !.k = n, !.pc = p, !.fetched = b, !.kept = K]
    BY DEF AfterCall, SourceSet
  <2>7. src[s] \in SourceSet
    OBVIOUS
  <2> HIDE DEF A, n, b, p, K, x
  <2> QED BY <2>1, <2>2, <2>3, <2>4, <2>5, <2>6, <2>7, SourceUpdate
<1> QED BY <1>3

LEMMA TypedCall ==
    ASSUME Typed, NEW s \in Sources, FetchCall(s)
    PROVE  Typed'
<1> USE DEF Typed, Types
<1> DEFINE x == AfterCall(s)
<1>1. run.ver \in Versions /\ src[s].pc = "fetch" /\ src[s].status = "running"
  BY DEF FetchCall, InRun, Numbered
<1>2. /\ src[s].k \in 1 .. NCombos /\ Params(src[s].k, run.ver) \in ParamSet
      /\ CallRec(s) \in RecSet /\ Checkpointed(s) \in CkptSet
  BY <1>1, CallType
<1>3. x \in SourceSet
  BY CallTyped
<1>4. /\ x.completed = src[s].completed /\ x.exporting = src[s].exporting /\ x.resumed = src[s].resumed
      /\ x.status = "running" /\ x.k = src[s].k + 1
      /\ x.pc = IF src[s].k = NCalls(s) THEN "fetched" ELSE "fetch"
  BY <1>1, CallCount DEF AfterCall, SourceSet
<1>5. ckpt' = [ckpt EXCEPT ![s] = Checkpointed(s)]
  BY DEF FetchCall
<1> HIDE DEF x
<1>6. ckpt' \in [Sources -> CkptSet]
  BY <1>2, <1>5
<1>7. CASE run.cancel /\ src[s].k < Cardinality(Calls(s))
  <2>1. /\ src' = [src EXCEPT ![s] = [[x EXCEPT !.status = "cancelled"] EXCEPT !.pc = "ended"]]
        /\ disk' = [disk EXCEPT ![s].staging = FALSE]
    BY <1>7 DEF FetchCall, Ended, x
  <2>2. [[x EXCEPT !.status = "cancelled"] EXCEPT !.pc = "ended"] \in SourceSet
    BY <1>3 DEF SourceSet, Pcs
  <2>3. src' \in [Sources -> SourceSet] /\ disk' \in [Sources -> DiskSet]
    BY <2>1, <2>2 DEF DiskSet
  <2>4. src'[s].pc = "ended" /\ src'[s].status = "cancelled"
    BY <1>3, <2>1 DEF SourceSet
  <2>5. Placed(s)'
    BY <2>4 DEF Placed, Early
  <2> QED BY <1>6, <2>3, <2>5, TypedFrom DEF SourceStep
<1>8. CASE ~(run.cancel /\ src[s].k < Cardinality(Calls(s)))
  <2>1. src' = [src EXCEPT ![s] = x] /\ UNCHANGED disk
    BY <1>8 DEF FetchCall, x
  <2>2. src' \in [Sources -> SourceSet] /\ disk' \in [Sources -> DiskSet] /\ src'[s] = x
    BY <1>3, <2>1
  <2>3. \A c \in src[s].resumed : Checkpointed(s).frags[c] # <<>>
    <3>1. CASE s \in Grid /\ src[s].k \notin src[s].resumed
      <4>1. Checkpointed(s).frags = [ckpt[s].frags EXCEPT ![src[s].k] = <<CallRec(s)>>]
        BY <3>1 DEF Checkpointed
      <4>2. ckpt[s].frags \in [1 .. NCombos -> Seq(RecSet)] /\ src[s].resumed \subseteq 1 .. NCombos
        BY DEF CkptSet, SourceSet
      <4> QED BY <1>1, <3>1, <4>1, <4>2 DEF Placed
    <3>2. CASE ~(s \in Grid /\ src[s].k \notin src[s].resumed)
      BY <1>1, <3>2 DEF Checkpointed, Placed
    <3> QED BY <3>1, <3>2
  <2>4. ckpt'[s] = Checkpointed(s)
    BY <1>5
  <2>5. x.pc = "fetch" => x.k \in 1 .. NCalls(s)
    BY <1>1, <1>2, <1>4, CallCount DEF Placed
  <2>6. src[s].completed = <<>> /\ ~src[s].exporting
    BY <1>1 DEF Placed, Early
  <2>7. Placed(s)'
    BY <1>4, <2>2, <2>3, <2>4, <2>5, <2>6 DEF Placed, Early
  <2> QED BY <1>6, <2>2, <2>7, TypedFrom DEF SourceStep
<1> QED BY <1>7, <1>8

\* A tuple appended to.
LEMMA AppendToOne ==
    ASSUME NEW S, NEW a \in S, NEW b \in S
    PROVE  Append(<<a>>, b) = <<a, b>>
<1> DEFINE x == Append(<<a>>, b)
           y == <<a, b>>
<1>1. <<a>> \in Seq(S) /\ y \in Seq(S) /\ Len(<<a>>) = 1 /\ Len(y) = 2 /\ y[1] = a /\ y[2] = b
  OBVIOUS
<1>2. x \in Seq(S) /\ Len(x) = 2 /\ x[1] = a /\ x[2] = b
  BY <1>1, AppendProperties
<1> HIDE DEF x, y
<1>3. \A i \in 1 .. Len(x) : x[i] = y[i]
  BY <1>1, <1>2
<1>4. x = y
  BY <1>1, <1>2, <1>3, SeqEqual
<1> QED BY <1>4 DEF x, y

LEMMA AppendToTwo ==
    ASSUME NEW S, NEW a \in S, NEW b \in S, NEW c \in S
    PROVE  Append(<<a,b>>, c) = <<a, b, c>>
<1> DEFINE x == Append(<<a, b>>, c)
           y == <<a, b, c>>
<1>1. /\ <<a, b>> \in Seq(S) /\ y \in Seq(S) /\ Len(<<a, b>>) = 2 /\ Len(y) = 3
      /\ y[1] = a /\ y[2] = b /\ y[3] = c
  OBVIOUS
<1>2. x \in Seq(S) /\ Len(x) = 3 /\ x[1] = a /\ x[2] = b /\ x[3] = c
  BY <1>1, AppendProperties
<1> HIDE DEF x, y
<1>3. \A i \in 1 .. Len(x) : x[i] = y[i]
  BY <1>1, <1>2
<1>4. x = y
  BY <1>1, <1>2, <1>3, SeqEqual
<1> QED BY <1>4 DEF x, y

\* Completing the stages in order.
LEMMA Completing ==
    /\ Append(<<>>, "bronze") = <<"bronze">>
    /\ Append(<<"bronze">>, "silver") = <<"bronze", "silver">>
    /\ Append(<<"bronze", "silver">>, "gold") = Whole
    /\ <<"bronze">> \in Progress /\ <<"bronze", "silver">> \in Progress /\ Whole \in Progress
<1> DEFINE S == {"bronze", "silver", "gold"}
<1>1. Append(<<>>, "bronze") = <<"bronze">>
  OBVIOUS
<1>2. Append(<<"bronze">>, "silver") = <<"bronze", "silver">>
  BY AppendToOne, "bronze" \in S, "silver" \in S
<1>3. Append(<<"bronze", "silver">>, "gold") = Whole
  BY AppendToTwo, "bronze" \in S, "silver" \in S, "gold" \in S DEF Whole
<1> QED BY <1>1, <1>2, <1>3 DEF Progress, Whole

LEMMA Lengths ==
    /\ Len(<<>>) = 0 /\ Len(<<"bronze">>) = 1 /\ Len(<<"bronze", "silver">>) = 2 /\ Len(Whole) = 3
    /\ <<>> # Whole /\ <<"bronze">> # Whole /\ <<"bronze", "silver">> # Whole
    /\ <<"bronze">> # <<>> /\ <<"bronze", "silver">> # <<>>
<1>1. Len(<<>>) = 0 /\ Len(<<"bronze">>) = 1 /\ Len(<<"bronze", "silver">>) = 2 /\ Len(Whole) = 3
  BY DEF Whole
<1>2. ASSUME NEW q, Len(q) # 3 PROVE q # Whole
  BY <1>1, <1>2
<1>3. <<>> # Whole /\ <<"bronze">> # Whole /\ <<"bronze", "silver">> # Whole
  <2>1. <<>> # Whole
    BY <1>1, <1>2
  <2>2. <<"bronze">> # Whole
    <3>1. Len(<<"bronze">>) # 3
      BY <1>1
    <3> QED BY <1>2, <3>1
  <2>3. <<"bronze", "silver">> # Whole
    <3>1. Len(<<"bronze", "silver">>) # 3
      BY <1>1
    <3> QED BY <1>2, <3>1
  <2> QED BY <2>1, <2>2, <2>3
<1>4. <<"bronze">> # <<>> /\ <<"bronze", "silver">> # <<>>
  OBVIOUS
<1> QED BY <1>1, <1>3, <1>4

LEMMA Ranges ==
    /\ Range(<<>>) = {} /\ Range(<<"bronze">>) = {"bronze"}
    /\ Range(<<"bronze", "silver">>) = {"bronze", "silver"}
    /\ Range(Whole) = {"bronze", "silver", "gold"} /\ Range(Stages) = {"bronze", "silver", "gold"}
BY DEF Range, Whole, Stages

LEMMA StageUpdate ==
    ASSUME NEW x \in SourceSet, NEW p \in Pcs, NEW C \in Progress
    PROVE  /\ \A K \in SUBSET ParamSet : [x EXCEPT !.pc = p, !.completed = C, !.kept = K] \in SourceSet
           /\ \A n \in Nat : [x EXCEPT !.pc = p, !.completed = C, !.silver = n] \in SourceSet
           /\ \A b \in BOOLEAN : [x EXCEPT !.pc = p, !.exporting = b] \in SourceSet
           /\ \A b \in BOOLEAN : [x EXCEPT !.pc = p, !.status = "ok", !.declared = b] \in SourceSet
<1>1. [x EXCEPT !.pc = p] \in SourceSet
  BY FieldUpdate
<1>2. \A K \in SUBSET ParamSet : [x EXCEPT !.pc = p, !.completed = C, !.kept = K] \in SourceSet
  BY DEF SourceSet
<1>3. \A n \in Nat : [x EXCEPT !.pc = p, !.completed = C, !.silver = n] \in SourceSet
  BY DEF SourceSet
<1>4. \A b \in BOOLEAN : [x EXCEPT !.pc = p, !.exporting = b] \in SourceSet
  BY DEF SourceSet
<1>5. \A b \in BOOLEAN : [x EXCEPT !.pc = p, !.status = "ok", !.declared = b] \in SourceSet
  BY DEF SourceSet
<1> QED BY <1>2, <1>3, <1>4, <1>5

\* The step at a boundary that a cancellation was observed at.
LEMMA TypedCancelled ==
    ASSUME Typed, NEW s \in Sources, CancelAt(s), SourceStep(s)
    PROVE  Typed'
<1>1. [src[s] EXCEPT !.status = "cancelled"] \in SourceSet /\ [src[s] EXCEPT !.status = "cancelled"].status = "cancelled"
  BY DEF SourceSet, Typed, Types
<1> QED BY <1>1, EndedType, TypedFrom DEF CancelAt

LEMMA TypedPersist ==
    ASSUME Typed, NEW s \in Sources, PersistBronze(s)
    PROVE  Typed'
<1> USE DEF Typed, Types
<1>1. src' = [src EXCEPT ![s] = [src[s] EXCEPT !.pc = "persisted"]] /\ UNCHANGED ckpt
      /\ disk' = [disk EXCEPT ![s].bronze = src[s].staged] /\ src[s].pc = "fetched" /\ src[s].status = "running"
  BY DEF PersistBronze, InRun
<1>2. src' \in [Sources -> SourceSet] /\ src'[s] = [src[s] EXCEPT !.pc = "persisted"]
  BY <1>1, FieldUpdate DEF Pcs
<1>3. disk' \in [Sources -> DiskSet]
  BY <1>1 DEF SourceSet, DiskSet
<1>4. /\ src'[s].pc = "persisted" /\ src'[s].completed = src[s].completed
      /\ src'[s].status = src[s].status /\ src'[s].exporting = src[s].exporting
  BY <1>2 DEF SourceSet
<1>5. Placed(s)'
  BY <1>1, <1>4 DEF Placed, Early
<1> QED BY <1>1, <1>2, <1>3, <1>5, TypedFrom DEF SourceStep

LEMMA TypedSeal ==
    ASSUME Typed, NEW s \in Sources, SealBronze(s)
    PROVE  Typed'
<1> USE DEF Typed, Types
<1>1. /\ src' = [src EXCEPT ![s] = [src[s] EXCEPT !.pc = "bronze", !.completed = Append(@, "bronze"), !.kept = {}]]
      /\ ckpt' = [ckpt EXCEPT ![s] = NoCkpt] /\ UNCHANGED disk
      /\ src[s].pc = "persisted" /\ src[s].status = "running"
  BY DEF SealBronze, InRun
<1>2. src[s].completed = <<>> /\ Append(src[s].completed, "bronze") = <<"bronze">>
  BY <1>1, Completing DEF Placed, Early
<1>3. src'[s] = [src[s] EXCEPT !.pc = "bronze", !.completed = <<"bronze">>, !.kept = {}]
  BY <1>1, <1>2
<1>4. src'[s] \in SourceSet
  <2>1. src[s] \in SourceSet /\ "bronze" \in Pcs /\ <<"bronze">> \in Progress /\ {} \in SUBSET ParamSet
    BY DEF Pcs, Progress
  <2>2. [src[s] EXCEPT !.pc = "bronze", !.completed = <<"bronze">>, !.kept = {}] \in SourceSet
    BY <2>1, StageUpdate
  <2> QED BY <1>3, <2>2
<1>5. src' \in [Sources -> SourceSet]
  BY <1>1, <1>3, <1>4
<1>6. ckpt' \in [Sources -> CkptSet]
  <2>1. NoCkpt \in CkptSet
    BY CallCount, EmptySeq DEF NoCkpt, NoFrags, CkptSet
  <2> QED BY <1>1, <2>1
<1>7. /\ src'[s].pc = "bronze" /\ src'[s].completed = <<"bronze">>
      /\ src'[s].status = src[s].status /\ src'[s].exporting = src[s].exporting
  BY <1>3 DEF SourceSet
<1>8. Placed(s)'
  BY <1>1, <1>7 DEF Placed, Early
<1> QED BY <1>1, <1>5, <1>6, <1>8, TypedFrom DEF SourceStep

\* Silver and Gold complete the next stage.
LEMMA TypedStage ==
    ASSUME Typed, NEW s \in Sources, Silver(s) \/ Gold(s)
    PROVE  Typed'
<1> USE DEF Typed, Types
<1>1. CASE CancelAt(s)
  BY <1>1, TypedCancelled DEF SourceStep
<1>2. ASSUME NEW C \in Progress, NEW n \in Nat, NEW p \in {"silvered", "golded"}, ~CancelAt(s),
             src' = [src EXCEPT ![s] = [src[s] EXCEPT !.pc = p, !.completed = C, !.silver = n]],
             p = "silvered" => C = <<"bronze", "silver">>, p = "golded" => C = Whole,
             disk' \in [Sources -> DiskSet], UNCHANGED ckpt, src[s].pc \in {"bronze", "silvered"},
             src[s].status = "running"
      PROVE  Typed'
  <2>1. src'[s] = [src[s] EXCEPT !.pc = p, !.completed = C, !.silver = n]
    BY <1>2
  <2>2. src'[s] \in SourceSet
    <3>1. p \in Pcs /\ src[s] \in SourceSet
      BY DEF Pcs
    <3>2. [src[s] EXCEPT !.pc = p, !.completed = C, !.silver = n] \in SourceSet
      BY <3>1, StageUpdate
    <3> QED BY <2>1, <3>2
  <2>3. src' \in [Sources -> SourceSet]
    BY <1>2, <2>1, <2>2
  <2>4. /\ src'[s].pc = p /\ src'[s].completed = C /\ src'[s].status = src[s].status
        /\ src'[s].exporting = src[s].exporting
    BY <2>1 DEF SourceSet
  <2>5. Placed(s)'
    BY <1>2, <2>4 DEF Placed, Early
  <2> QED BY <1>2, <2>3, <2>5, TypedFrom DEF SourceStep
<1>3. run.att \in Nat /\ src[s].silver \in Nat
  BY DEF RunSet, SourceSet
<1>4. CASE Silver(s) /\ ~CancelAt(s)
  <2>1. PICK n \in Nat :
            src' = [src EXCEPT ![s] = [src[s] EXCEPT !.pc = "silvered", !.completed = Append(@, "silver"), !.silver = n]]
    BY <1>3, <1>4 DEF Silver, Stage
  <2>2. Append(src[s].completed, "silver") = <<"bronze", "silver">>
    BY <1>4, Completing DEF Silver, Stage, Placed
  <2>3. /\ disk' \in [Sources -> DiskSet] /\ UNCHANGED ckpt /\ src[s].pc = "bronze"
        /\ src[s].status = "running"
    <3>1. disk' = [disk EXCEPT ![s] = [disk[s] EXCEPT !["silver"] = run.att]]
      BY <1>4 DEF Silver, Stage
    <3>2. [disk[s] EXCEPT !["silver"] = run.att] \in DiskSet
      BY <1>3 DEF DiskSet
    <3>3. UNCHANGED ckpt /\ src[s].pc = "bronze" /\ src[s].status = "running"
      BY <1>4 DEF Silver, Stage, InRun
    <3> QED BY <3>1, <3>2, <3>3
  <2>4. src' = [src EXCEPT ![s] = [src[s] EXCEPT !.pc = "silvered", !.completed = <<"bronze", "silver">>, !.silver = n]]
    BY <2>1, <2>2
  <2> QED BY <1>2, <1>4, <2>3, <2>4 DEF Progress
<1>5. CASE Gold(s) /\ ~CancelAt(s)
  <2>1. PICK n \in Nat :
            src' = [src EXCEPT ![s] = [src[s] EXCEPT !.pc = "golded", !.completed = Append(@, "gold"), !.silver = n]]
    BY <1>3, <1>5 DEF Gold, Stage
  <2>2. Append(src[s].completed, "gold") = Whole
    BY <1>5, Completing DEF Gold, Stage, Placed
  <2>3. /\ disk' \in [Sources -> DiskSet] /\ UNCHANGED ckpt /\ src[s].pc = "silvered"
        /\ src[s].status = "running"
    <3>1. disk' = [disk EXCEPT ![s] = [disk[s] EXCEPT !["gold"] = run.att]]
      BY <1>5 DEF Gold, Stage
    <3>2. [disk[s] EXCEPT !["gold"] = run.att] \in DiskSet
      BY <1>3 DEF DiskSet
    <3>3. UNCHANGED ckpt /\ src[s].pc = "silvered" /\ src[s].status = "running"
      BY <1>5 DEF Gold, Stage, InRun
    <3> QED BY <3>1, <3>2, <3>3
  <2>4. src' = [src EXCEPT ![s] = [src[s] EXCEPT !.pc = "golded", !.completed = Whole, !.silver = n]]
    BY <2>1, <2>2
  <2> QED BY <1>2, <1>5, <2>3, <2>4 DEF Progress, Whole
<1> QED BY <1>1, <1>4, <1>5

LEMMA TypedExport ==
    ASSUME Typed, NEW s \in Sources, StartExport(s) \/ FinishExport(s)
    PROVE  Typed'
<1> USE DEF Typed, Types
<1>1. CASE StartExport(s) /\ CancelAt(s)
  BY <1>1, TypedCancelled DEF SourceStep
<1>2. CASE StartExport(s) /\ ~CancelAt(s)
  <2>1. /\ src' = [src EXCEPT ![s] = [src[s] EXCEPT !.pc = "export", !.exporting = TRUE]]
        /\ UNCHANGED <<ckpt, disk>> /\ src[s].pc = "golded" /\ src[s].status = "running"
    BY <1>2 DEF StartExport, InRun
  <2>2. src'[s] = [src[s] EXCEPT !.pc = "export", !.exporting = TRUE]
    BY <2>1
  <2>3. src'[s] \in SourceSet
    <3>1. src[s] \in SourceSet /\ "export" \in Pcs /\ TRUE \in BOOLEAN /\ Whole \in Progress
      BY Completing DEF Pcs
    <3>2. [src[s] EXCEPT !.pc = "export", !.exporting = TRUE] \in SourceSet
      BY <3>1, StageUpdate
    <3> QED BY <2>2, <3>2
  <2>4. src' \in [Sources -> SourceSet]
    BY <2>1, <2>2, <2>3
  <2>5. /\ src'[s].pc = "export" /\ src'[s].exporting = TRUE /\ src'[s].status = src[s].status
        /\ src'[s].completed = src[s].completed
    BY <2>2 DEF SourceSet
  <2>6. Placed(s)'
    BY <2>1, <2>5 DEF Placed, Early
  <2> QED BY <1>2, <2>1, <2>4, <2>6, TypedFrom DEF SourceStep
<1>3. CASE FinishExport(s)
  <2>1. /\ src' = [src EXCEPT ![s] = [src[s] EXCEPT !.pc = "ended", !.status = "ok", !.declared = s \in Declared]]
        /\ disk' = [disk EXCEPT ![s].export = run.att, ![s].staging = FALSE]
        /\ UNCHANGED ckpt /\ src[s].pc = "export" /\ src[s].status = "running"
    BY <1>3 DEF FinishExport, InRun
  <2>2. PICK b \in BOOLEAN : b = (s \in Declared)
    <3>1. (s \in Declared) \in BOOLEAN
      OBVIOUS
    <3> QED BY <3>1, Zenon
  <2>3. src'[s] = [src[s] EXCEPT !.pc = "ended", !.status = "ok", !.declared = b]
    BY <2>1, <2>2
  <2>4. src'[s] \in SourceSet
    <3>1. src[s] \in SourceSet /\ "ended" \in Pcs /\ Whole \in Progress
      BY Completing DEF Pcs
    <3>2. [src[s] EXCEPT !.pc = "ended", !.status = "ok", !.declared = b] \in SourceSet
      BY <3>1, StageUpdate
    <3> QED BY <2>3, <3>2
  <2>5. src' \in [Sources -> SourceSet]
    BY <2>1, <2>4
  <2>6. disk' \in [Sources -> DiskSet]
    BY <2>1 DEF DiskSet, RunSet
  <2>7. src'[s].pc = "ended" /\ src'[s].status = "ok" /\ src'[s].completed = src[s].completed
    BY <2>3 DEF SourceSet
  <2>8. Placed(s)'
    BY <2>1, <2>7 DEF Placed, Early
  <2> QED BY <1>3, <2>1, <2>5, <2>6, <2>8, TypedFrom DEF SourceStep
<1> QED BY <1>1, <1>2, <1>3

LEMMA TypedFail ==
    ASSUME Typed, NEW s \in Sources, Fail(s)
    PROVE  Typed'
<1>1. [src[s] EXCEPT !.status = "failed"] \in SourceSet /\ [src[s] EXCEPT !.status = "failed"].status = "failed"
  BY DEF SourceSet, Typed, Types
<1>2. Ended(s, [src[s] EXCEPT !.status = "failed"]) /\ UNCHANGED ckpt
  BY DEF Fail
<1> QED BY <1>1, <1>2, EndedType, TypedFrom

LEMMA TypedSource ==
    ASSUME Typed, NEW s \in Sources, SourceStep(s) \/ Fail(s)
    PROVE  Typed'
BY TypedBegin, TypedCall, TypedPersist, TypedSeal, TypedStage, TypedExport, TypedFail DEF SourceStep

-----------------------------------------------------------------------------
(* The steps of the run.                                                   *)

\* What an attempt begins with, whatever the one before it left in memory.
Begun(x) ==
    /\ x.pc = "idle" /\ x.k = 1 /\ x.resumed = {} /\ x.staged = <<>> /\ x.completed = <<>>
    /\ x.silver = NoRun /\ x.status = "running" /\ ~x.fetched /\ ~x.exporting /\ ~x.declared

LEMMA Fresh ==
    ASSUME NEW K \in SUBSET ParamSet
    PROVE  /\ NoSource \in SourceSet /\ Begun(NoSource)
           /\ [NoSource EXCEPT !.kept = K] \in SourceSet /\ Begun([NoSource EXCEPT !.kept = K])
<1>1. NoSource \in SourceSet
  <2>1. <<>> \in Seq(RecSet) /\ <<>> \in Progress /\ "idle" \in Pcs
    BY DEF Progress, Pcs
  <2> QED BY <2>1 DEF NoSource, NoRun, SourceSet
<1>2. Begun(NoSource)
  BY DEF NoSource, Begun, NoRun
<1> DEFINE x == [NoSource EXCEPT !.kept = K]
<1>3. x \in SourceSet
  BY <1>1, FieldUpdate
<1>4. Begun(x)
  BY <1>1, <1>2 DEF SourceSet, Begun
<1> QED BY <1>1, <1>2, <1>3, <1>4

LEMMA TypedForget ==
    ASSUME Typed, Forget
    PROVE  /\ src' \in [Sources -> SourceSet] /\ \A s \in Sources : Placed(s)'
           /\ composed' \in [att : Nat, unmasked : SUBSET Sources]
           /\ table' \in [Sources -> [rev : Nat, by : Nat]]
           /\ manifest' \in ManifestSet /\ log' \in [Sources -> SUBSET EventSet]
           /\ \A s \in Sources : Begun(src[s])' /\ log'[s] = {} /\ table'[s] = [rev |-> 0, by |-> 0]
<1> USE DEF Typed, Types
<1>1. \A s \in Sources : src'[s] = [NoSource EXCEPT !.kept = src[s].kept] /\ src[s].kept \in SUBSET ParamSet
  BY DEF Forget, SourceSet
<1>2. src' \in [Sources -> SourceSet]
  BY <1>1, Fresh DEF Forget
<1>3. ASSUME NEW s \in Sources PROVE Begun(src[s])'
  <2>1. PICK K \in SUBSET ParamSet : K = src[s].kept /\ src'[s] = [NoSource EXCEPT !.kept = K]
    BY <1>1
  <2>2. Begun([NoSource EXCEPT !.kept = K])
    BY Fresh
  <2> QED BY <2>1, <2>2 DEF Begun
<1>4. ASSUME NEW s \in Sources PROVE Placed(s)'
  BY <1>3 DEF Placed, Early, Begun
<1>5. /\ composed' \in [att : Nat, unmasked : SUBSET Sources]
      /\ table' \in [Sources -> [rev : Nat, by : Nat]]
      /\ log' \in [Sources -> SUBSET EventSet]
      /\ \A s \in Sources : log'[s] = {} /\ table'[s] = [rev |-> 0, by |-> 0]
  BY DEF Forget, NoComposed, NoCommit, NoEvents, NoRun
<1>6. manifest' \in ManifestSet
  <2>1. [s \in Sources |-> <<>>] \in [Sources -> Progress]
    BY DEF Progress
  <2> QED BY <2>1 DEF Forget, NoManifest, ManifestSet, NoRun
<1> QED BY <1>1, <1>2, <1>3, <1>4, <1>5, <1>6

LEMMA TypedInit == Init => Typed
<1> SUFFICES ASSUME Init PROVE Typed
  OBVIOUS
<1>1. \A s \in Sources : src[s] = NoSource
  BY DEF Init
<1>2. NoSource \in SourceSet /\ Begun(NoSource)
  <2>1. {} \in SUBSET ParamSet
    OBVIOUS
  <2> QED BY <2>1, Fresh
<1>4. src \in [Sources -> SourceSet]
  BY <1>2 DEF Init
<1>5. \A s \in Sources : Placed(s)
  BY <1>1, <1>2 DEF Placed, Early, Begun
<1>6. run \in RunSet /\ run.phase = "idle"
  BY DEF Init, IdleRun, RunSet
<1>7. NoCkpt \in CkptSet
  BY CallCount, EmptySeq DEF NoCkpt, NoFrags, CkptSet
<1>8. NoDisk \in DiskSet
  BY EmptySeq DEF NoDisk, DiskSet, NoRun
<1>9. manifest \in ManifestSet
  <2>1. [s \in Sources |-> <<>>] \in [Sources -> Progress]
    BY DEF Progress
  <2> QED BY <2>1 DEF Init, NoManifest, ManifestSet, NoRun
<1>10. /\ composed \in [att : Nat, unmasked : SUBSET Sources]
       /\ table \in [Sources -> [rev : Nat, by : Nat]]
       /\ log \in [Sources -> SUBSET EventSet] /\ budget \in Nat
  BY PipelineAssumption DEF Init, NoComposed, NoCommit, NoEvents, NoRun
<1>11. ckpt \in [Sources -> CkptSet] /\ disk \in [Sources -> DiskSet]
  BY <1>7, <1>8 DEF Init
<1> QED BY <1>4, <1>5, <1>6, <1>9, <1>10, <1>11 DEF Typed, Types, Numbered

LEMMA TypedStart ==
    ASSUME Typed, StartRun
    PROVE  Typed' /\ run'.phase = "sources" /\ run'.att = run.att + 1 /\ run'.revs = [s \in Sources |-> 0]
           /\ ~run'.cancel /\ ~run'.cancelled /\ run'.status = "none" /\ run'.comp = "none" /\ run'.todo = {}
           /\ run'.conflicts = {} /\ run'.dropped = {} /\ run'.ver \in Versions
<1>1. PICK v \in Versions : run' = [IdleRun EXCEPT !.phase = "sources", !.att = run.att + 1, !.ver = v,
                                                   !.revs = [s \in Sources |-> 0]]
  BY DEF StartRun
<1>2. v \in Nat /\ run.att \in Nat
  BY PipelineAssumption DEF Typed, Types, RunSet
<1>3. run' = [phase |-> "sources", att |-> run.att + 1, ver |-> v, cancel |-> FALSE, cancelled |-> FALSE,
              status |-> "none", comp |-> "none", revs |-> [s \in Sources |-> 0], todo |-> {},
              conflicts |-> {}, dropped |-> {}]
  BY <1>1 DEF IdleRun
<1>4. run' \in RunSet
  BY <1>2, <1>3 DEF RunSet
<1>5. Forget /\ UNCHANGED <<ckpt, disk, budget>>
  BY DEF StartRun
<1>6. Typed'
  BY <1>2, <1>3, <1>4, <1>5, TypedForget DEF Typed, Types, Numbered
<1> QED BY <1>3, <1>6

\* The lines a crash may leave, and the directories it may find renamed away.
LEMMA TypedCrash ==
    ASSUME Typed, Crash
    PROVE  Typed' /\ run'.phase = "idle" /\ run'.att = run.att /\ run'.todo = {} /\ run'.status = "none"
           /\ run'.comp = "none" /\ ~run'.cancelled /\ run'.dropped = {} /\ ~run'.cancel
<1> USE DEF Typed, Types
<1>0. PICK s \in Sources : \E k \in Torn(s), d \in Swapped(s) :
          ckpt' = [ckpt EXCEPT ![s] = k] /\ disk' = [disk EXCEPT ![s] = d]
  BY DEF Crash
<1>1. PICK k \in Torn(s), d \in Swapped(s) :
          ckpt' = [ckpt EXCEPT ![s] = k] /\ disk' = [disk EXCEPT ![s] = d]
  BY <1>0
<1>2. run' = [IdleRun EXCEPT !.att = run.att] /\ Forget /\ UNCHANGED budget
  BY DEF Crash
<1>3. k \in CkptSet
  <2>1. ckpt[s] \in CkptSet
    OBVIOUS
  <2>2. CASE k # ckpt[s]
    <3> DEFINE c == src[s].k
               line(r) == [c |-> c, params |-> Params(c, run.ver), readable |-> r, open |-> TRUE]
               frags == [ckpt[s].frags EXCEPT ![c] = <<Rec(run.att, c, run.ver)>>]
    <3>1. src[s].pc = "fetch" /\ s \in Grid
      BY <1>1, <2>2 DEF Torn
    <3>2. c \in 1 .. NCombos /\ run.ver \in Versions /\ run.att \in Nat
      BY <3>1, CallCount DEF Placed, Numbered, Crash, RunSet
    <3>3. Params(c, run.ver) \in ParamSet
      BY <3>2 DEF Params, ParamSet
    <3>4. frags \in [1 .. NCombos -> Seq(RecSet)]
      <4>1. Rec(run.att, c, run.ver) \in RecSet
        BY <3>2, <3>3 DEF Rec, RecSet
      <4>2. <<Rec(run.att, c, run.ver)>> \in Seq(RecSet)
        BY <4>1
      <4> QED BY <2>1, <3>2, <4>2 DEF CkptSet
    <3>5. \A r \in BOOLEAN : line(r) \in LineSet
      BY <3>2, <3>3 DEF LineSet
    <3> HIDE DEF frags, line
    <3>6. \A r \in BOOLEAN : AppendLine(ckpt[s].index, line(r)) \in Seq(LineSet)
      BY <2>1, <3>5, AppendLineType DEF CkptSet
    <3>7. \/ k = [ckpt[s] EXCEPT !.frags = frags]
          \/ \E r \in BOOLEAN : k = [frags |-> frags, index |-> AppendLine(ckpt[s].index, line(r))]
      BY <1>1, <2>2 DEF Torn, frags, line
    <3>8. [ckpt[s] EXCEPT !.frags = frags] \in CkptSet
      BY <2>1, <3>4 DEF CkptSet
    <3>9. ASSUME NEW ix \in Seq(LineSet) PROVE [frags |-> frags, index |-> ix] \in CkptSet
      BY <3>4 DEF CkptSet
    <3> QED BY <3>6, <3>7, <3>8, <3>9
  <2> QED BY <2>1, <2>2
<1>4. d \in DiskSet
  <2>1. disk[s] \in DiskSet /\ <<>> \in Seq(RecSet)
    BY EmptySeq
  <2>2. \/ d = disk[s] \/ d = [disk[s] EXCEPT !.bronze = <<>>]
        \/ d = [disk[s] EXCEPT !.silver = NoRun] \/ d = [disk[s] EXCEPT !.gold = NoRun]
    BY <1>1 DEF Swapped
  <2>3. /\ [disk[s] EXCEPT !.bronze = <<>>] \in DiskSet /\ [disk[s] EXCEPT !.silver = NoRun] \in DiskSet
        /\ [disk[s] EXCEPT !.gold = NoRun] \in DiskSet
    BY <2>1 DEF DiskSet, NoRun
  <2> QED BY <2>1, <2>2, <2>3
<1>5. run' = [phase |-> "idle", att |-> run.att, ver |-> 0, cancel |-> FALSE, cancelled |-> FALSE,
              status |-> "none", comp |-> "none", revs |-> [t \in Sources |-> 0], todo |-> {},
              conflicts |-> {}, dropped |-> {}]
  BY <1>2 DEF IdleRun
<1>6. run' \in RunSet
  BY <1>5 DEF RunSet
<1>7. ckpt' \in [Sources -> CkptSet] /\ disk' \in [Sources -> DiskSet]
  BY <1>1, <1>3, <1>4
<1>8. Numbered'
  BY <1>5 DEF Numbered
<1>9. Typed'
  BY <1>2, <1>6, <1>7, <1>8, TypedForget
<1> QED BY <1>5, <1>9

\* Every step that leaves the sources alone keeps their places.
LEMMA TypedRun ==
    ASSUME Typed, UNCHANGED <<src, ckpt, disk, log>>, run' \in RunSet,
           composed' \in [att : Nat, unmasked : SUBSET Sources],
           table' \in [Sources -> [rev : Nat, by : Nat]], manifest' \in ManifestSet, budget' \in Nat,
           run'.att = run.att, run'.ver = run.ver, run.phase # "idle",
           run'.phase \notin {"idle", "sources"} => AllEnded
    PROVE  Typed'
<1>1. \A s \in Sources : Placed(s)'
  BY DEF Typed, Placed
<1>2. Numbered'
  BY DEF Typed, Numbered, AllEnded
<1> QED BY <1>1, <1>2 DEF Typed, Types

\* The status a run is decided to have.
DecidedStatus ==
    IF run.cancelled THEN "cancelled"
    ELSE IF Errors # {} \/ run.comp \in {"failed", "skipped"} THEN "failed" ELSE "ok"

LEMMA DecideEffect ==
    ASSUME Decide
    PROVE  /\ run' = [run EXCEPT !.phase = "decided", !.status = DecidedStatus,
                                 !.todo = IF DecidedStatus = "ok" THEN OkSources ELSE {}]
           /\ DecidedStatus \in {"ok", "failed", "cancelled"}
<1>1. CASE run.cancelled
  BY <1>1 DEF Decide, DecidedStatus
<1>2. CASE ~run.cancelled /\ (Errors # {} \/ run.comp \in {"failed", "skipped"})
  BY <1>2 DEF Decide, DecidedStatus
<1>3. CASE ~run.cancelled /\ ~(Errors # {} \/ run.comp \in {"failed", "skipped"})
  BY <1>3 DEF Decide, DecidedStatus
<1> QED BY <1>1, <1>2, <1>3

\* What every step after the merge keeps of the run.
SameAttempt ==
    /\ run'.att = run.att /\ run'.ver = run.ver /\ run'.revs = run.revs /\ run'.dropped = run.dropped
    /\ run'.cancelled = run.cancelled

\* A commit of a source's table, refused when another build moved it.
LEMMA MaterializeEffect ==
    ASSUME Types, NEW s \in Sources, Materialize(s) \/ CommitFails(s)
    PROVE  /\ run.phase = "decided" /\ s \in run.todo /\ UNCHANGED <<src, ckpt, disk, composed, manifest, log>>
           /\ run' \in RunSet /\ run'.phase = "decided" /\ SameAttempt /\ run'.status = run.status
           /\ run'.comp = run.comp /\ run'.todo = run.todo \ {s} /\ budget' \in Nat
           /\ table' \in [Sources -> [rev : Nat, by : Nat]]
           /\ \A t \in Sources : t # s => table'[t] = table[t]
           /\ \/ /\ table[s].rev = run.revs[s] /\ run'.conflicts = run.conflicts
                 /\ table'[s].rev = table[s].rev + 1 /\ table'[s].by = run.att
              \/ UNCHANGED table /\ run'.conflicts = run.conflicts \cup {s}
<1> DEFINE Kept == /\ run' \in RunSet /\ run'.phase = "decided" /\ SameAttempt /\ run'.status = run.status
                   /\ run'.comp = run.comp /\ run'.todo = run.todo \ {s}
           Moved == \/ /\ table[s].rev = run.revs[s] /\ run'.conflicts = run.conflicts
                       /\ table'[s].rev = table[s].rev + 1 /\ table'[s].by = run.att
                    \/ UNCHANGED table /\ run'.conflicts = run.conflicts \cup {s}
<1>1. run.phase = "decided" /\ s \in run.todo /\ UNCHANGED <<src, ckpt, disk, composed, manifest, log>>
  BY DEF Materialize, CommitFails
<1>2. run \in RunSet /\ run.att \in Nat /\ table \in [Sources -> [rev : Nat, by : Nat]] /\ budget \in Nat
  BY DEF Types, RunSet
<1>3. ASSUME run' = [run EXCEPT !.todo = run.todo \ {s}]
      PROVE  Kept /\ run'.conflicts = run.conflicts
  BY <1>1, <1>2, <1>3 DEF RunSet, SameAttempt
<1>4. ASSUME run' = [run EXCEPT !.todo = run.todo \ {s}, !.conflicts = run.conflicts \cup {s}]
      PROVE  Kept /\ run'.conflicts = run.conflicts \cup {s}
  BY <1>1, <1>2, <1>4 DEF RunSet, SameAttempt
<1> HIDE DEF Kept
<1>5. CASE Materialize(s) /\ table[s].rev = run.revs[s]
  <2>1. /\ table' = [table EXCEPT ![s] = [rev |-> table[s].rev + 1, by |-> run.att]] /\ UNCHANGED budget
        /\ run' = [run EXCEPT !.todo = run.todo \ {s}]
    BY <1>5 DEF Materialize
  <2>2. /\ table' \in [Sources -> [rev : Nat, by : Nat]] /\ \A t \in Sources : t # s => table'[t] = table[t]
        /\ table'[s].rev = table[s].rev + 1 /\ table'[s].by = run.att
    BY <1>2, <2>1
  <2> QED BY <1>1, <1>2, <1>3, <1>5, <2>1, <2>2 DEF Kept
<1>6. CASE Materialize(s) /\ table[s].rev # run.revs[s]
  <2>1. UNCHANGED <<table, budget>> /\ run' = [run EXCEPT !.todo = run.todo \ {s}, !.conflicts = run.conflicts \cup {s}]
    BY <1>6 DEF Materialize
  <2> QED BY <1>1, <1>2, <1>4, <2>1 DEF Kept
<1>7. CASE CommitFails(s)
  <2>1. UNCHANGED table /\ run' = [run EXCEPT !.todo = run.todo \ {s}, !.conflicts = run.conflicts \cup {s}]
    BY <1>7 DEF CommitFails
  <2>2. budget' \in Nat
    BY <1>2, <1>7 DEF CommitFails
  <2> QED BY <1>1, <1>2, <1>4, <2>1, <2>2 DEF Kept
<1> QED BY <1>5, <1>6, <1>7

LEMMA TypedFinal ==
    ASSUME Typed, Cancel \/ Finalize \/ \E s \in Sources : CommitFails(s) \/ RivalCommit(s)
    PROVE  Typed'
<1> USE DEF Typed, Types
<1>1. CASE Cancel
  <2>1. run' \in RunSet /\ run'.phase = "sources" /\ run'.att = run.att /\ run'.ver = run.ver
    BY <1>1 DEF Cancel, RunSet
  <2> QED BY <1>1, <2>1, TypedRun DEF Cancel
<1>2. CASE Merge
  <2>1. (run.cancel \/ \E s \in Sources : src[s].status = "cancelled") \in BOOLEAN
    BY DEF RunSet
  <2>2. run' \in RunSet /\ run'.phase = "merged" /\ run'.att = run.att /\ run'.ver = run.ver
    BY <1>2, <2>1 DEF Merge, RunSet
  <2> QED BY <1>2, <2>2, TypedRun DEF Merge
<1>3. CASE Compose
  <2>1. run' \in RunSet /\ run'.phase = "merged" /\ run'.att = run.att /\ run'.ver = run.ver
    BY <1>3 DEF Compose, RunSet
  <2>2. composed' \in [att : Nat, unmasked : SUBSET Sources] /\ budget' \in Nat
    <3>1. run.att \in Nat /\ UnmaskedSides \in SUBSET Sources
      BY PipelineAssumption DEF RunSet, UnmaskedSides
    <3> QED BY <1>3, <3>1 DEF Compose
  <2>3. run.phase = "merged" /\ UNCHANGED <<src, ckpt, disk, table, manifest, log>> /\ AllEnded
    BY <1>3 DEF Compose, Numbered
  <2> QED BY <2>1, <2>2, <2>3, TypedRun
<1>4. CASE Decide
  <2> DEFINE todo == IF DecidedStatus = "ok" THEN OkSources ELSE {}
  <2>1. /\ run' = [run EXCEPT !.phase = "decided", !.status = DecidedStatus, !.todo = todo]
        /\ DecidedStatus \in {"ok", "failed", "cancelled"} /\ todo \in SUBSET Sources
    BY <1>4, DecideEffect DEF OkSources
  <2> HIDE DEF todo
  <2>2. run' \in RunSet /\ run'.phase = "decided" /\ run'.att = run.att /\ run'.ver = run.ver
    BY <2>1 DEF RunSet
  <2>3. run.phase = "merged" /\ UNCHANGED <<src, ckpt, disk, composed, table, manifest, log, budget>> /\ AllEnded
    BY <1>4 DEF Decide, Numbered
  <2> QED BY <2>2, <2>3, TypedRun
<1>5. ASSUME NEW s \in Sources, Materialize(s) \/ CommitFails(s)
      PROVE  Typed'
  <2>1. AllEnded
    BY <1>5, MaterializeEffect DEF Numbered
  <2> QED BY <1>5, <2>1, MaterializeEffect, TypedRun DEF SameAttempt
<1>6. ASSUME NEW s \in Sources, RivalCommit(s)
      PROVE  Typed'
  <2>1. run.phase # "idle" /\ UNCHANGED <<run, src, ckpt, disk, composed, manifest, log>> /\ budget' \in Nat
    BY <1>6 DEF RivalCommit
  <2>2. table' \in [Sources -> [rev : Nat, by : Nat]]
    BY <1>6 DEF RivalCommit, NoRun
  <2>3. run.phase # "sources" => AllEnded
    BY <2>1 DEF Numbered
  <2> QED BY <2>1, <2>2, <2>3, TypedRun
<1>7. CASE WriteManifest
  <2>1. run' \in RunSet /\ run'.phase = "done" /\ run'.att = run.att /\ run'.ver = run.ver
    BY <1>7 DEF WriteManifest, RunSet
  <2>2. manifest' \in ManifestSet
    <3>1. [s \in Sources |-> src[s].completed] \in [Sources -> Progress]
      BY DEF SourceSet
    <3>2. OkSources \in SUBSET Sources /\ {s \in OkSources : Resumed(s)} \in SUBSET Sources
      BY DEF OkSources
    <3>3. /\ run.att \in Nat /\ run.status \in {"none", "ok", "failed", "cancelled"}
          /\ run.dropped \in SUBSET (Sources \X EventSet) /\ run.conflicts \in SUBSET Sources
      BY DEF RunSet
    <3> QED BY <1>7, <3>1, <3>2, <3>3 DEF WriteManifest, ManifestSet
  <2>3. run.phase = "decided" /\ AllEnded /\ UNCHANGED <<src, ckpt, disk, composed, table, log, budget>>
    BY <1>7 DEF WriteManifest, Numbered
  <2> QED BY <2>1, <2>2, <2>3, TypedRun
<1> QED BY <1>1, <1>2, <1>3, <1>4, <1>5, <1>6, <1>7 DEF Finalize

LEMMA TypedNext ==
    ASSUME Typed, [Next]_vars
    PROVE  Typed'
<1>1. CASE UNCHANGED vars
  <2>1. UNCHANGED <<run, src, ckpt, disk, composed, table, manifest, log, budget>>
    BY <1>1 DEF vars
  <2>2. \A s \in Sources : Placed(s)'
    BY <2>1 DEF Typed, Placed
  <2> QED BY <2>1, <2>2 DEF Typed, Types, Numbered, AllEnded
<1>2. CASE Next
  BY <1>2, TypedStart, TypedCrash, TypedFinal, TypedSource DEF Next
<1> QED BY <1>1, <1>2

\* At every moment the records have their types, a source has completed the
\* stages its thread is past, and only ended sources are merged.
THEOREM PipelineTyped == Spec => []Typed
<1>1. Typed /\ [Next]_vars => Typed'
  BY TypedNext
<1> QED BY TypedInit, <1>1, PTL DEF Spec

-----------------------------------------------------------------------------
(* The event log agrees with what happened.                                 *)

\* The events of a source that reached the log or the warnings.
AllEvents(s) == log[s] \cup {e \in EventSet : <<s, e>> \in run.dropped}

LEMMA Recorded ==
    ASSUME Types, NEW s \in Sources, NEW E \in SUBSET EventSet, Record(s, E)
    PROVE  /\ AllEvents(s)' = AllEvents(s) \cup E
           /\ \A t \in Sources : t # s => AllEvents(t)' = AllEvents(t)
<1>1. PICK D \in SUBSET (Sources \X EventSet) :
          /\ run' = [run EXCEPT !.dropped = D]
          /\ \A t \in Sources : t # s => \A e : <<t, e>> \in D <=> <<t, e>> \in run.dropped
          /\ \A e : e \in log'[s] \/ <<s, e>> \in D <=> e \in log[s] \/ <<s, e>> \in run.dropped \/ e \in E
  BY RecordEffect
<1>2. log \in [Sources -> SUBSET EventSet] /\ log' \in [Sources -> SUBSET EventSet]
  BY RecordEffect DEF Types
<1>3. \A t \in Sources : t # s => log'[t] = log[t]
  BY RecordEffect
<1>4. run'.dropped = D
  BY <1>1 DEF Types, RunSet
<1>5. ASSUME NEW e PROVE e \in AllEvents(s)' <=> e \in AllEvents(s) \cup E
  BY <1>1, <1>2, <1>4 DEF AllEvents
<1>6. ASSUME NEW t \in Sources, t # s PROVE AllEvents(t)' = AllEvents(t)
  BY <1>1, <1>3, <1>4, <1>6 DEF AllEvents
<1> QED BY <1>5, <1>6

\* What a source's step reports, and what it makes of the source.
Silent(s) ==
    /\ UNCHANGED <<run, log>> /\ src'[s].completed = src[s].completed
    /\ src'[s].status \in {"running", "cancelled"}
Fetches(s) ==
    /\ Record(s, {Ev("completed", "fetch")}) /\ src'[s].completed = src[s].completed
    /\ src'[s].status = "running"
Completes(s, before, stage, after) ==
    /\ Record(s, {Ev("completed", stage)}) /\ src[s].completed = before /\ src'[s].completed = after
    /\ src'[s].status = "running"
Exports(s) ==
    /\ Record(s, {Ev("completed", "export")}) /\ src[s].completed = Whole /\ src'[s].completed = Whole
    /\ src'[s].status = "ok"
Fails(s) ==
    /\ Record(s, FailEvents(src[s])) /\ src'[s].completed = src[s].completed /\ src'[s].status = "failed"
    /\ src[s].completed = Whole => src[s].exporting

LEMMA CancelEffect ==
    ASSUME Typed, NEW s \in Sources, CancelAt(s)
    PROVE  Silent(s) /\ src'[s].status = "cancelled"
<1>1. src[s] \in SourceSet
  BY DEF Typed, Types
<1>2. src'[s] = [[src[s] EXCEPT !.status = "cancelled"] EXCEPT !.pc = "ended"]
  BY DEF CancelAt, Ended, Typed, Types
<1>3. src'[s].status = "cancelled" /\ src'[s].completed = src[s].completed
  BY <1>1, <1>2 DEF SourceSet
<1> QED BY <1>3 DEF Silent, CancelAt

LEMMA SourceEffect ==
    ASSUME Typed, NEW s \in Sources, SourceStep(s) \/ Fail(s)
    PROVE  /\ src[s].status = "running"
           /\ \/ Silent(s) \/ Fetches(s) \/ Exports(s) \/ Fails(s)
              \/ Completes(s, <<>>, "bronze", <<"bronze">>)
              \/ Completes(s, <<"bronze">>, "silver", <<"bronze", "silver">>)
              \/ Completes(s, <<"bronze", "silver">>, "gold", Whole)
<1> USE DEF Typed, Types
<1>0. src[s] \in SourceSet /\ src[s].status = "running"
  BY SourceFrame
<1>1. CASE CancelAt(s)
  BY <1>0, <1>1, CancelEffect
<1>2. CASE BeginFetch(s) /\ ~CancelAt(s)
  <2> DEFINE loaded == IF s \in Grid THEN Load(ckpt[s], run.ver) ELSE [ckpt |-> ckpt[s], done |-> {}]
             K == IF loaded.ckpt = ckpt[s] THEN src[s].kept ELSE {}
             R == loaded.done
  <2>1. src'[s] = [src[s] EXCEPT !.pc = "fetch", !.resumed = R, !.kept = K]
    BY <1>2 DEF BeginFetch
  <2> HIDE DEF K, R
  <2>2. src'[s].completed = src[s].completed /\ src'[s].status = src[s].status
    BY <1>0, <2>1 DEF SourceSet
  <2> QED BY <1>0, <1>2, <2>2 DEF BeginFetch, Silent
<1>3. CASE FetchCall(s)
  <2>1. AfterCall(s).completed = src[s].completed /\ AfterCall(s).status = src[s].status /\ AfterCall(s) \in SourceSet
    <3>1. AfterCall(s).completed = src[s].completed /\ AfterCall(s).status = src[s].status
      BY <1>0 DEF AfterCall, SourceSet
    <3>2. AfterCall(s) \in SourceSet
      BY <1>3, CallTyped
    <3> QED BY <3>1, <3>2
  <2> DEFINE x == AfterCall(s)
  <2>2. CASE run.cancel /\ src[s].k < Cardinality(Calls(s))
    <3>1. src'[s] = [[x EXCEPT !.status = "cancelled"] EXCEPT !.pc = "ended"] /\ UNCHANGED <<run, log>>
      BY <1>3, <2>2 DEF FetchCall, Ended
    <3> HIDE DEF x
    <3>2. src'[s].completed = x.completed /\ src'[s].status = "cancelled"
      BY <2>1, <3>1 DEF SourceSet, x
    <3> QED BY <1>0, <2>1, <3>1, <3>2 DEF Silent, x
  <2>3. CASE ~(run.cancel /\ src[s].k < Cardinality(Calls(s)))
    <3>1. src'[s] = x /\ (Record(s, {Ev("completed", "fetch")}) \/ UNCHANGED <<run, log>>)
      BY <1>3, <2>3 DEF FetchCall
    <3> QED BY <1>0, <2>1, <3>1 DEF Silent, Fetches
  <2> QED BY <2>2, <2>3
<1>4. CASE PersistBronze(s)
  <2>1. src'[s] = [src[s] EXCEPT !.pc = "persisted"]
    BY <1>4 DEF PersistBronze
  <2>2. src'[s].completed = src[s].completed /\ src'[s].status = src[s].status
    BY <1>0, <2>1 DEF SourceSet
  <2> QED BY <1>0, <1>4, <2>2 DEF PersistBronze, Silent
<1>5. CASE SealBronze(s)
  <2>1. src'[s] = [src[s] EXCEPT !.pc = "bronze", !.completed = Append(src[s].completed, "bronze"), !.kept = {}]
        /\ src[s].pc = "persisted" /\ Record(s, {Ev("completed", "bronze")})
    BY <1>5 DEF SealBronze
  <2>2. src[s].completed = <<>>
    BY <2>1 DEF Placed, Early
  <2>3. src'[s].completed = Append(<<>>, "bronze") /\ src'[s].status = src[s].status
    BY <1>0, <2>1, <2>2 DEF SourceSet
  <2> QED BY <1>0, <2>1, <2>2, <2>3, Completing DEF Completes
<1>6. CASE Silver(s) /\ ~CancelAt(s)
  <2>1. PICK n : src'[s] = [src[s] EXCEPT !.pc = "silvered", !.completed = Append(src[s].completed, "silver"), !.silver = n]
    BY <1>6 DEF Silver, Stage
  <2>2. src[s].pc = "bronze" /\ Record(s, {Ev("completed", "silver")})
    BY <1>6 DEF Silver, Stage
  <2>3. src[s].completed = <<"bronze">>
    BY <2>2 DEF Placed
  <2>4. src'[s].completed = Append(<<"bronze">>, "silver") /\ src'[s].status = src[s].status
    BY <1>0, <2>1, <2>3 DEF SourceSet
  <2> QED BY <1>0, <2>2, <2>3, <2>4, Completing DEF Completes
<1>7. CASE Gold(s) /\ ~CancelAt(s)
  <2>1. PICK n : src'[s] = [src[s] EXCEPT !.pc = "golded", !.completed = Append(src[s].completed, "gold"), !.silver = n]
    BY <1>7 DEF Gold, Stage
  <2>2. src[s].pc = "silvered" /\ Record(s, {Ev("completed", "gold")})
    BY <1>7 DEF Gold, Stage
  <2>3. src[s].completed = <<"bronze", "silver">>
    BY <2>2 DEF Placed
  <2>4. src'[s].completed = Append(<<"bronze", "silver">>, "gold") /\ src'[s].status = src[s].status
    BY <1>0, <2>1, <2>3 DEF SourceSet
  <2> QED BY <1>0, <2>2, <2>3, <2>4, Completing DEF Completes
<1>8. CASE StartExport(s) /\ ~CancelAt(s)
  <2>1. src'[s] = [src[s] EXCEPT !.pc = "export", !.exporting = TRUE] /\ UNCHANGED <<run, log>>
    BY <1>8 DEF StartExport
  <2>2. src'[s].completed = src[s].completed /\ src'[s].status = src[s].status
    BY <1>0, <2>1 DEF SourceSet
  <2> QED BY <1>0, <2>1, <2>2 DEF Silent
<1>9. CASE FinishExport(s)
  <2>1. /\ src'[s] = [src[s] EXCEPT !.pc = "ended", !.status = "ok", !.declared = s \in Declared]
        /\ src[s].pc = "export" /\ Record(s, {Ev("completed", "export")})
    BY <1>9 DEF FinishExport
  <2>2. src[s].completed = Whole
    BY <2>1 DEF Placed
  <2>3. src'[s].completed = src[s].completed /\ src'[s].status = "ok"
    BY <1>0, <2>1 DEF SourceSet
  <2> QED BY <1>0, <2>1, <2>2, <2>3 DEF Exports
<1>10. CASE Fail(s)
  <2>1. /\ src'[s] = [[src[s] EXCEPT !.status = "failed"] EXCEPT !.pc = "ended"]
        /\ src[s].pc \notin {"idle", "persisted", "golded"} /\ Record(s, FailEvents(src[s]))
    BY <1>10 DEF Fail, Ended
  <2>2. src'[s].completed = src[s].completed /\ src'[s].status = "failed"
    BY <1>0, <2>1 DEF SourceSet
  <2>3. ASSUME src[s].completed = Whole PROVE src[s].exporting
    <3>1. src[s].pc \in {"golded", "export"}
      <4>1. src[s].completed # <<>> /\ src[s].completed # <<"bronze">> /\ src[s].completed # <<"bronze", "silver">>
        BY <2>3, Lengths
      <4>2. src[s].pc \in Pcs /\ src[s].pc # "ended"
        BY <1>0 DEF Placed, SourceSet
      <4>3. src[s].pc \notin Early /\ src[s].pc # "bronze" /\ src[s].pc # "silvered"
        BY <4>1 DEF Placed
      <4> QED BY <4>2, <4>3 DEF Early, Pcs
    <3> QED BY <1>0, <2>1, <3>1 DEF Placed
  <2> QED BY <1>0, <2>1, <2>2, <2>3 DEF Fails
<1> QED BY <1>1, <1>2, <1>3, <1>4, <1>5, <1>6, <1>7, <1>8, <1>9, <1>10 DEF SourceStep

\* The stage a source that failed is charged with.
FailedAt(done) == IF Len(done) < 3 THEN Stages[Len(done) + 1] ELSE "export"

\* What the events of a source say of it.
Told(s) ==
    /\ \A stage \in {"bronze", "silver", "gold"} :
          Ev("completed", stage) \in AllEvents(s) <=> stage \in Range(src[s].completed)
    /\ Ev("completed", "export") \in AllEvents(s) <=> src[s].status = "ok"
    /\ src[s].status # "failed" => \A e \in AllEvents(s) : e[1] # "failed"
    /\ src[s].status = "failed" => \A stage \in {"bronze", "silver", "gold", "export"} :
          Ev("failed", stage) \in AllEvents(s) <=> stage = FailedAt(src[s].completed)

\* What a manifest was written from is still in memory.
Reported ==
    run.phase = "done" =>
        /\ manifest.att = run.att /\ manifest.status = run.status /\ manifest.ok = OkSources
        /\ manifest.resumed = {s \in OkSources : Resumed(s)} /\ manifest.warnings = run.dropped
        /\ manifest.conflicts = run.conflicts
        /\ manifest.stages = [s \in Sources |-> src[s].completed]

LEMMA StageAt ==
    /\ Stages[1] = "bronze" /\ Stages[2] = "silver" /\ Stages[3] = "gold"
    /\ FailedAt(<<>>) = "bronze" /\ FailedAt(<<"bronze">>) = "silver"
    /\ FailedAt(<<"bronze", "silver">>) = "gold" /\ FailedAt(Whole) = "export"
<1>1. Stages[1] = "bronze" /\ Stages[2] = "silver" /\ Stages[3] = "gold"
  BY DEF Stages
<1> QED BY <1>1, Lengths DEF FailedAt

LEMMA FailureCharged ==
    ASSUME NEW r \in SourceSet, r.completed = Whole => r.exporting
    PROVE  FailedStages(r) = {FailedAt(r.completed)}
<1>1. Len(Stages) = 3
  BY DEF Stages
<1>2. r.completed \in Progress
  BY DEF SourceSet
<1>3. CASE r.completed = Whole
  BY <1>1, <1>3, Lengths DEF FailedStages, FailedAt
<1>4. CASE r.completed # Whole
  <2>1. Len(r.completed) < 3
    <3>1. r.completed \in {<<>>, <<"bronze">>, <<"bronze", "silver">>}
      BY <1>2, <1>4 DEF Progress, Whole
    <3>2. CASE r.completed = <<>>
      BY <3>2
    <3>3. CASE r.completed = <<"bronze">>
      BY <3>3
    <3>4. CASE r.completed = <<"bronze", "silver">>
      BY <3>4
    <3> QED BY <3>1, <3>2, <3>3, <3>4
  <2> QED BY <1>1, <2>1 DEF FailedStages, FailedAt
<1> QED BY <1>3, <1>4

\* The source whose step it is.
LEMMA ToldOwn ==
    ASSUME Typed, NEW s \in Sources, Told(s), SourceStep(s) \/ Fail(s)
    PROVE  Told(s)'
<1>1. src[s] \in SourceSet /\ src[s].status = "running" /\ src[s].completed \in Progress
  BY SourceEffect DEF Typed, Types, SourceSet
<1>2. \A stage \in {"fetch", "bronze", "silver", "gold", "export"} : {Ev("completed", stage)} \in SUBSET EventSet
  BY EventTypes
<1>3. ASSUME NEW E \in SUBSET EventSet, Record(s, E) PROVE AllEvents(s)' = AllEvents(s) \cup E
  BY <1>3, Recorded DEF Typed
<1>4. CASE Silent(s)
  <2>1. AllEvents(s)' = AllEvents(s)
    BY <1>4 DEF Silent, AllEvents
  <2> QED BY <1>1, <1>4, <2>1 DEF Told, Silent
<1>5. CASE Fetches(s)
  <2>1. AllEvents(s)' = AllEvents(s) \cup {Ev("completed", "fetch")}
    BY <1>2, <1>3, <1>5 DEF Fetches
  <2> QED BY <1>1, <1>5, <2>1 DEF Told, Fetches, Ev
<1>6. ASSUME NEW before, NEW stage \in {"bronze", "silver", "gold"}, NEW after,
             Completes(s, before, stage, after), Range(after) = Range(before) \cup {stage}
      PROVE  Told(s)'
  <2>1. AllEvents(s)' = AllEvents(s) \cup {Ev("completed", stage)}
    BY <1>2, <1>3, <1>6 DEF Completes
  <2>2. src[s].completed = before /\ src'[s].completed = after /\ src'[s].status = "running"
    BY <1>6 DEF Completes
  <2>3. \A x \in {"bronze", "silver", "gold"} :
            Ev("completed", x) \in AllEvents(s)' <=> x \in Range(src'[s].completed)
    BY <1>6, <2>1, <2>2 DEF Told, Ev
  <2>4. Ev("completed", "export") \notin AllEvents(s)'
    BY <1>1, <2>1 DEF Told, Ev
  <2>5. \A e \in AllEvents(s)' : e[1] # "failed"
    BY <1>1, <2>1 DEF Told, Ev
  <2> QED BY <2>2, <2>3, <2>4, <2>5 DEF Told
<1>7. CASE Exports(s)
  <2>1. AllEvents(s)' = AllEvents(s) \cup {Ev("completed", "export")}
    BY <1>2, <1>3, <1>7 DEF Exports
  <2> QED BY <1>1, <1>7, <2>1 DEF Told, Exports, Ev
<1>8. CASE Fails(s)
  <2> DEFINE E == FailEvents(src[s])
  <2>1. AllEvents(s)' = AllEvents(s) \cup E
    BY <1>3, <1>8, EventTypes DEF Fails, Typed
  <2>2. \A stage \in {"bronze", "silver", "gold", "export"} :
            Ev("failed", stage) \in E <=> stage = FailedAt(src[s].completed)
    <3>1. FailedStages(src[s]) = {FailedAt(src[s].completed)}
      BY <1>1, <1>8, FailureCharged DEF Fails
    <3> QED BY <3>1 DEF FailEvents, Ev
  <2>3. \A stage : Ev("completed", stage) \notin E
    BY DEF FailEvents, Ev
  <2>4. \A stage : Ev("failed", stage) \notin AllEvents(s)
    BY <1>1 DEF Told, Ev
  <2> HIDE DEF E
  <2>5. src'[s].completed = src[s].completed /\ src'[s].status = "failed"
    BY <1>8 DEF Fails
  <2>6. \A stage : Ev("completed", stage) \in AllEvents(s)' <=> Ev("completed", stage) \in AllEvents(s)
    BY <2>1, <2>3
  <2>7. \A stage \in {"bronze", "silver", "gold", "export"} :
            Ev("failed", stage) \in AllEvents(s)' <=> stage = FailedAt(src'[s].completed)
    BY <2>1, <2>2, <2>4, <2>5
  <2> QED BY <1>1, <2>5, <2>6, <2>7 DEF Told
<1> QED BY <1>4, <1>5, <1>6, <1>7, <1>8, SourceEffect, Ranges

\* The sources another source's step leaves alone.
LEMMA ToldOther ==
    ASSUME Typed, NEW s \in Sources, NEW t \in Sources, t # s, Told(t), SourceStep(s) \/ Fail(s)
    PROVE  Told(t)'
<1>1. src'[t] = src[t] /\ log'[t] = log[t]
  BY SourceFrame DEF Typed
<1>2. AllEvents(t)' = AllEvents(t)
  <2>1. CASE UNCHANGED run
    BY <1>1, <2>1 DEF AllEvents
  <2>2. ASSUME NEW E \in SUBSET EventSet, Record(s, E) PROVE AllEvents(t)' = AllEvents(t)
    BY <2>2, Recorded DEF Typed
  <2>3. \/ UNCHANGED run \/ \E E \in SUBSET EventSet : Record(s, E)
    BY SourceEffect, EventTypes DEF Silent, Fetches, Completes, Exports, Fails, Typed
  <2> QED BY <2>1, <2>2, <2>3
<1> QED BY <1>1, <1>2 DEF Told

\* What the steps of the run leave alone.
FinalStep == Cancel \/ Finalize \/ \E s \in Sources : CommitFails(s) \/ RivalCommit(s)

LEMMA FinalFrame ==
    ASSUME Typed, FinalStep
    PROVE  /\ UNCHANGED <<src, ckpt, disk, log>>
           /\ run'.att = run.att /\ run'.ver = run.ver /\ run'.revs = run.revs /\ run'.dropped = run.dropped
           /\ run'.phase = "done" => WriteManifest
           /\ run.phase # "idle" /\ run.phase # "done" /\ run'.phase # "idle"
<1> USE DEF Typed, Types
<1>1. CASE Cancel \/ Merge
  <2>1. PICK c, x : \/ run' = [run EXCEPT !.cancel = TRUE] /\ run.phase = "sources"
                    \/ run' = [run EXCEPT !.phase = "merged", !.cancelled = x] /\ run.phase = "sources"
    BY <1>1 DEF Cancel, Merge
  <2> QED BY <1>1, <2>1 DEF Cancel, Merge, RunSet
<1>2. CASE Compose
  BY <1>2 DEF Compose, RunSet
<1>3. CASE Decide
  <2> DEFINE todo == IF DecidedStatus = "ok" THEN OkSources ELSE {}
  <2>1. run' = [run EXCEPT !.phase = "decided", !.status = DecidedStatus, !.todo = todo]
    BY <1>3, DecideEffect
  <2>2. run.phase = "merged" /\ UNCHANGED <<src, ckpt, disk, log>>
    BY <1>3 DEF Decide
  <2> HIDE DEF todo
  <2> QED BY <2>1, <2>2 DEF RunSet
<1>4. ASSUME NEW s \in Sources, Materialize(s) \/ CommitFails(s)
      PROVE  /\ UNCHANGED <<src, ckpt, disk, log>>
             /\ run'.att = run.att /\ run'.ver = run.ver /\ run'.revs = run.revs /\ run'.dropped = run.dropped
             /\ run.phase = "decided" /\ run'.phase = "decided"
  BY <1>4, MaterializeEffect DEF SameAttempt
<1>5. ASSUME NEW s \in Sources, RivalCommit(s)
      PROVE  UNCHANGED <<run, src, ckpt, disk, log>> /\ run.phase \in {"sources", "merged", "decided"}
  BY <1>5 DEF RivalCommit
<1>6. CASE WriteManifest
  BY <1>6 DEF WriteManifest, RunSet
<1> QED BY <1>1, <1>2, <1>3, <1>4, <1>5, <1>6 DEF FinalStep, Finalize

LEMMA ReportedNext ==
    ASSUME Typed, Reported, [Next]_vars
    PROVE  Reported'
<1>1. CASE UNCHANGED vars
  BY <1>1 DEF vars, Reported, OkSources, Resumed
<1>2. CASE WriteManifest
  <2>1. manifest' = [att |-> run.att, status |-> run.status, ok |-> OkSources,
                     resumed |-> {s \in OkSources : Resumed(s)},
                     warnings |-> run.dropped, conflicts |-> run.conflicts,
                     stages |-> [s \in Sources |-> src[s].completed]]
        /\ run' = [run EXCEPT !.phase = "done"] /\ UNCHANGED src
    BY <1>2 DEF WriteManifest
  <2>2. /\ run'.att = run.att /\ run'.status = run.status /\ run'.dropped = run.dropped
        /\ run'.conflicts = run.conflicts
    BY <2>1 DEF Typed, Types, RunSet
  <2>3. OkSources' = OkSources /\ \A s \in Sources : Resumed(s)' = Resumed(s)
    BY <2>1 DEF OkSources, Resumed
  <2>4. {s \in OkSources : Resumed(s)}' = {s \in OkSources : Resumed(s)}
    BY <2>1 DEF OkSources, Resumed
  <2>5. /\ manifest'.att = run.att /\ manifest'.status = run.status /\ manifest'.ok = OkSources
        /\ manifest'.resumed = {s \in OkSources : Resumed(s)} /\ manifest'.warnings = run.dropped
        /\ manifest'.conflicts = run.conflicts
        /\ manifest'.stages = [s \in Sources |-> src[s].completed]
    BY <2>1
  <2> QED BY <2>1, <2>2, <2>3, <2>4, <2>5 DEF Reported
<1>3. CASE FinalStep /\ ~WriteManifest
  BY <1>3, FinalFrame DEF Reported
<1>4. CASE StartRun \/ Crash
  BY <1>4, TypedStart, TypedCrash DEF Reported
<1>5. ASSUME NEW s \in Sources, SourceStep(s) \/ Fail(s) PROVE Reported'
  <2>1. run'.phase = "sources"
    BY <1>5, SourceFrame, SourceKeepsRun, SameRunFields DEF Typed
  <2> QED BY <2>1 DEF Reported
<1> QED BY <1>1, <1>2, <1>3, <1>4, <1>5 DEF Next, FinalStep

ToldAll == \A s \in Sources : Told(s)

\* An attempt begins with no events.
LEMMA ToldFresh ==
    ASSUME NEW s \in Sources, src[s].completed = <<>>, src[s].status = "running", log[s] = {}, run.dropped = {}
    PROVE  Told(s)
BY Ranges DEF Told, AllEvents

LEMMA ToldNext ==
    ASSUME Typed, ToldAll, [Next]_vars
    PROVE  ToldAll'
<1> USE DEF ToldAll
<1>1. CASE UNCHANGED vars
  BY <1>1 DEF vars, Told, AllEvents
<1>2. CASE FinalStep
  BY <1>2, FinalFrame DEF Told, AllEvents
<1>3. CASE StartRun \/ Crash
  <2>1. run'.dropped = {} /\ Forget
    BY <1>3, TypedStart, TypedCrash DEF StartRun, Crash
  <2>2. ASSUME NEW s \in Sources PROVE Told(s)'
    <3>1. src'[s].completed = <<>> /\ src'[s].status = "running" /\ log'[s] = {}
      BY <2>1, TypedForget DEF Begun
    <3> QED BY <2>1, <3>1, Ranges DEF Told, AllEvents
  <2> QED BY <2>2
<1>4. ASSUME NEW s \in Sources, SourceStep(s) \/ Fail(s) PROVE ToldAll'
  BY <1>4, ToldOwn, ToldOther
<1> QED BY <1>1, <1>2, <1>3, <1>4 DEF Next, FinalStep

LEMMA TimelineBegins == Init => ToldAll /\ Reported
<1> SUFFICES ASSUME Init PROVE ToldAll /\ Reported
  OBVIOUS
<1>1. run.dropped = {} /\ run.phase = "idle"
  BY DEF Init, IdleRun
<1>2. ASSUME NEW s \in Sources PROVE Told(s)
  <2>1. src[s].completed = <<>> /\ src[s].status = "running" /\ log[s] = {}
    BY DEF Init, NoSource, NoEvents
  <2> QED BY <1>1, <2>1, ToldFresh
<1> QED BY <1>1, <1>2 DEF ToldAll, Reported

LEMMA TimelineFrom ==
    ASSUME Typed, Reported, ToldAll
    PROVE  TimelineAgrees
<1> SUFFICES ASSUME Finished, NEW s \in Sources
    PROVE  LET all == log[s] \cup {w[2] : w \in {x \in manifest.warnings : x[1] = s}}
               failed == {e[2] : e \in {x \in all : x[1] = "failed"}} \ {"fetch"}
           IN  /\ {e[2] : e \in {x \in all : x[1] = "completed"}} \cap Range(Stages)
                     = Range(manifest.stages[s])
               /\ Ev("completed", "export") \in all <=> s \in manifest.ok
               /\ failed = IF src[s].status # "failed" THEN {}
                           ELSE IF Len(manifest.stages[s]) < 3
                                THEN {Stages[Len(manifest.stages[s]) + 1]} ELSE {"export"}
  BY DEF TimelineAgrees
<1> DEFINE all == log[s] \cup {w[2] : w \in {x \in manifest.warnings : x[1] = s}}
<1>1. /\ manifest.warnings = run.dropped /\ manifest.ok = OkSources
      /\ manifest.stages[s] = src[s].completed
  BY DEF Finished, Reported
<1>2. log[s] \in SUBSET EventSet /\ run.dropped \in SUBSET (Sources \X EventSet) /\ src[s].completed \in Progress
  BY DEF Typed, Types, RunSet, SourceSet
<1>3. all = AllEvents(s)
  <2>1. \A w \in run.dropped : w = <<w[1], w[2]>> /\ w[2] \in EventSet
    BY <1>2
  <2>2. {w[2] : w \in {x \in run.dropped : x[1] = s}} = {e \in EventSet : <<s, e>> \in run.dropped}
    BY <2>1
  <2> QED BY <1>1, <2>2 DEF AllEvents
<1> HIDE DEF all
<1>4. all \subseteq EventSet /\ \A e \in EventSet : e = Ev(e[1], e[2])
  BY <1>2, <1>3 DEF AllEvents, EventSet, Ev
<1>5. \A kind, stage : Ev(kind, stage)[1] = kind /\ Ev(kind, stage)[2] = stage
  BY DEF Ev
<1>6. Told(s)
  BY DEF ToldAll
<1>7. Range(src[s].completed) \subseteq {"bronze", "silver", "gold"}
  BY <1>2, Ranges DEF Progress, Whole
<1>8. {e[2] : e \in {x \in all : x[1] = "completed"}} \cap Range(Stages) = Range(src[s].completed)
  <2>1. ASSUME NEW stage
        PROVE  stage \in {e[2] : e \in {x \in all : x[1] = "completed"}} <=> Ev("completed", stage) \in all
    BY <1>4, <1>5
  <2> QED BY <1>3, <1>6, <1>7, <2>1, Ranges DEF Told
<1>9. Ev("completed", "export") \in all <=> s \in manifest.ok
  BY <1>1, <1>3, <1>6 DEF Told, OkSources
<1>10. {e[2] : e \in {x \in all : x[1] = "failed"}} \ {"fetch"}
          = IF src[s].status # "failed" THEN {} ELSE {FailedAt(src[s].completed)}
  <2>1. CASE src[s].status # "failed"
    BY <1>3, <1>6, <2>1 DEF Told
  <2>2. CASE src[s].status = "failed"
    <3>1. ASSUME NEW stage
          PROVE  stage \in {e[2] : e \in {x \in all : x[1] = "failed"}} <=> Ev("failed", stage) \in all
      BY <1>4, <1>5
    <3>2. \A stage : Ev("failed", stage) \in EventSet => stage \in {"fetch", "bronze", "silver", "gold", "export"}
      BY DEF Ev, EventSet
    <3>3. FailedAt(src[s].completed) \in {"bronze", "silver", "gold", "export"}
      BY <1>2, StageAt DEF Progress, Whole
    <3>4. \A stage \in {"bronze", "silver", "gold", "export"} :
              Ev("failed", stage) \in all <=> stage = FailedAt(src[s].completed)
      BY <1>3, <1>6, <2>2 DEF Told
    <3> QED BY <1>4, <2>2, <3>1, <3>2, <3>3, <3>4
  <2> QED BY <2>1, <2>2
<1> QED BY <1>1, <1>8, <1>9, <1>10 DEF all, FailedAt

\* The manifest's stages and outcomes are those the events tell, lost appends
\* included, however many sources run and whatever fails, is cancelled or is
\* built again (BuildEventRecorder, the except clause).
THEOREM TimelinesAgree == Spec => []TimelineAgrees
<1>1. Init => Typed /\ Reported /\ ToldAll
  BY TypedInit, TimelineBegins
<1>2. Typed /\ Reported /\ ToldAll /\ [Next]_vars => (Typed /\ Reported /\ ToldAll)'
  BY TypedNext, ReportedNext, ToldNext
<1>3. Typed /\ Reported /\ ToldAll => TimelineAgrees
  BY TimelineFrom
<1> QED BY <1>1, <1>2, <1>3, PTL DEF Spec

-----------------------------------------------------------------------------
(* What a run commits, and what a cancelled one does not.                   *)

\* A table the attempt committed was committed once, on the revision the
\* attempt began with, after it was decided to be ok.
Committed(s) ==
    run.phase # "idle" /\ table[s].by = run.att =>
        /\ run.phase \in {"decided", "done"} /\ run.status = "ok"
        /\ table[s].rev = run.revs[s] + 1

\* An ok source of an ok run is still to be committed, a conflict, or moved.
Accounted(s) ==
    run.phase \in {"decided", "done"} /\ run.status = "ok" /\ src[s].status = "ok" =>
        s \in run.todo \/ s \in run.conflicts \/ table[s].rev > run.revs[s]

Resolved ==
    /\ run.todo # {} => run.phase = "decided" /\ run.status = "ok"
    /\ run.phase \in {"decided", "done"} => (run.status = "cancelled" <=> run.cancelled)
    /\ run.phase # "idle" /\ composed.att = run.att =>
          run.phase \in {"merged", "decided", "done"} /\ ~run.cancelled

Commits == Resolved /\ \A s \in Sources : Committed(s) /\ Accounted(s)

LEMMA CommitsBegin ==
    ASSUME Typed, Commits, StartRun \/ Crash
    PROVE  Commits'
<1>1. Forget /\ run'.todo = {} /\ run'.phase \in {"idle", "sources"} /\ (run'.phase # "idle" => run'.att > 0)
  BY TypedStart, TypedCrash DEF StartRun, Crash, Typed, Numbered
<1>2. \A s \in Sources : table'[s].by = 0
  BY <1>1, TypedForget
<1>3. composed'.att = 0
  BY <1>1 DEF Forget, NoComposed, NoRun
<1> QED BY <1>1, <1>2, <1>3 DEF Commits, Resolved, Committed, Accounted

\* A step of a source, before anything is decided.
LEMMA CommitsSource ==
    ASSUME Typed, Commits, NEW s \in Sources, SourceStep(s) \/ Fail(s)
    PROVE  Commits'
<1>1. /\ run.phase = "sources" /\ run'.phase = run.phase /\ run'.att = run.att /\ run'.todo = run.todo
      /\ UNCHANGED <<table, composed>>
  BY SourceFrame, SourceKeepsRun, SameRunFields DEF Typed
<1> QED BY <1>1 DEF Commits, Resolved, Committed, Accounted

LEMMA CommitsMaterialize ==
    ASSUME Typed, Commits, NEW s \in Sources, Materialize(s) \/ CommitFails(s)
    PROVE  Commits'
<1> USE DEF Typed
<1>1. /\ run.phase = "decided" /\ run'.phase = "decided" /\ run'.att = run.att /\ run'.status = run.status
      /\ run'.revs = run.revs /\ run'.todo = run.todo \ {s} /\ s \in run.todo /\ run'.cancelled = run.cancelled
      /\ UNCHANGED <<src, composed>>
  BY MaterializeEffect DEF SameAttempt
<1>2. run.status = "ok"
  BY <1>1 DEF Commits, Resolved
<1>3. Resolved'
  BY <1>1, <1>2 DEF Commits, Resolved
<1>4. ASSUME NEW t \in Sources, t # s PROVE Committed(t)' /\ Accounted(t)'
  <2>1. table'[t] = table[t] /\ (t \in run.conflicts => t \in run'.conflicts)
    BY <1>4, MaterializeEffect
  <2> QED BY <1>1, <1>4, <2>1 DEF Commits, Committed, Accounted
<1>5. Committed(s)' /\ Accounted(s)'
  <2>1. run.revs[s] \in Nat /\ table[s].rev \in Nat
    BY DEF Types, RunSet
  <2>2. CASE table[s].rev = run.revs[s] /\ table'[s].rev = table[s].rev + 1
    BY <1>1, <1>2, <2>1, <2>2 DEF Committed, Accounted
  <2>3. CASE UNCHANGED table /\ run'.conflicts = run.conflicts \cup {s}
    BY <1>1, <1>2, <2>3 DEF Commits, Committed, Accounted
  <2> QED BY <2>2, <2>3, MaterializeEffect
<1> QED BY <1>3, <1>4, <1>5 DEF Commits

LEMMA CommitsRival ==
    ASSUME Typed, Commits, NEW s \in Sources, RivalCommit(s)
    PROVE  Commits'
<1>1. UNCHANGED <<run, src, composed>> /\ run.phase # "idle"
  BY DEF RivalCommit
<1>2. run.att > 0 /\ run.revs[s] \in Nat /\ table[s].rev \in Nat
  BY <1>1 DEF Typed, Types, RunSet, Numbered
<1>3. table' = [table EXCEPT ![s] = [rev |-> table[s].rev + 1, by |-> 0]] /\ table \in [Sources -> [rev : Nat, by : Nat]]
  BY DEF RivalCommit, NoRun, Typed, Types
<1>4. table'[s].rev = table[s].rev + 1 /\ table'[s].by = 0 /\ \A t \in Sources : t # s => table'[t] = table[t]
  BY <1>3
<1>5. Resolved'
  BY <1>1 DEF Commits, Resolved
<1>6. Committed(s)' /\ Accounted(s)'
  BY <1>1, <1>2, <1>4 DEF Commits, Committed, Accounted
<1>7. ASSUME NEW t \in Sources, t # s PROVE Committed(t)' /\ Accounted(t)'
  BY <1>1, <1>4, <1>7 DEF Commits, Committed, Accounted
<1> QED BY <1>5, <1>6, <1>7 DEF Commits

LEMMA CommitsDecide ==
    ASSUME Typed, Commits, Decide
    PROVE  Commits'
<1> USE DEF Typed, Types
<1> DEFINE todo == IF DecidedStatus = "ok" THEN OkSources ELSE {}
<1>1. run' = [run EXCEPT !.phase = "decided", !.status = DecidedStatus, !.todo = todo]
      /\ run.phase = "merged" /\ UNCHANGED <<src, table, composed>>
  BY DecideEffect DEF Decide
<1>2. (todo # {} => DecidedStatus = "ok") /\ (DecidedStatus = "ok" => todo = OkSources)
  OBVIOUS
<1>3. DecidedStatus = "cancelled" <=> run.cancelled
  BY DEF DecidedStatus
<1> HIDE DEF todo
<1>4. /\ run'.phase = "decided" /\ run'.status = DecidedStatus /\ run'.todo = todo /\ run'.att = run.att
      /\ run'.revs = run.revs /\ run'.cancelled = run.cancelled
  BY <1>1 DEF RunSet
<1>5. Resolved'
  BY <1>1, <1>2, <1>3, <1>4 DEF Commits, Resolved
<1>6. ASSUME NEW s \in Sources PROVE Committed(s)' /\ Accounted(s)'
  <2>1. Committed(s)'
    BY <1>1, <1>4 DEF Commits, Committed
  <2>2. Accounted(s)'
    BY <1>1, <1>2, <1>4 DEF Accounted, OkSources
  <2> QED BY <2>1, <2>2
<1> QED BY <1>5, <1>6 DEF Commits

LEMMA CommitsNext ==
    ASSUME Typed, Commits, [Next]_vars
    PROVE  Commits'
<1>1. CASE UNCHANGED vars
  BY <1>1 DEF vars, Commits, Resolved, Committed, Accounted
<1>2. CASE Cancel
  <2>1. /\ run.phase = "sources" /\ run'.phase = "sources" /\ run'.att = run.att /\ run'.todo = run.todo
        /\ UNCHANGED <<src, table, composed>>
    BY <1>2 DEF Cancel, Typed, Types, RunSet
  <2> QED BY <2>1 DEF Commits, Resolved, Committed, Accounted
<1>3. CASE Merge
  <2>1. /\ run.phase = "sources" /\ run'.phase = "merged" /\ run'.att = run.att /\ run'.todo = run.todo
        /\ UNCHANGED <<src, table, composed>>
    BY <1>3 DEF Merge, Typed, Types, RunSet
  <2> QED BY <2>1 DEF Commits, Resolved, Committed, Accounted
<1>4. CASE Compose
  <2>1. /\ run.phase = "merged" /\ run'.phase = "merged" /\ run'.att = run.att /\ run'.todo = run.todo
        /\ ~run.cancelled /\ run'.cancelled = run.cancelled /\ UNCHANGED <<src, table>>
    BY <1>4 DEF Compose, Typed, Types, RunSet
  <2> QED BY <2>1 DEF Commits, Resolved, Committed, Accounted
<1>5. CASE WriteManifest
  <2>1. /\ run.phase = "decided" /\ run'.phase = "done" /\ run'.att = run.att /\ run'.todo = run.todo
        /\ run'.status = run.status /\ run'.cancelled = run.cancelled /\ run'.revs = run.revs
        /\ run'.conflicts = run.conflicts /\ run.todo = {} /\ UNCHANGED <<src, table, composed>>
    BY <1>5 DEF WriteManifest, Typed, Types, RunSet
  <2> QED BY <2>1 DEF Commits, Resolved, Committed, Accounted
<1> QED BY <1>1, <1>2, <1>3, <1>4, <1>5, CommitsBegin, CommitsSource, CommitsMaterialize, CommitsRival, CommitsDecide
        DEF Next, Finalize

LEMMA CommitsInit == Init => Commits
BY DEF Init, IdleRun, Commits, Resolved, Committed, Accounted

\* A table this run moved was moved by no other build since the run began, and
\* an ok source whose table did not move is a conflict of its manifest
\* (run_build, start revisions and warehouse_failures).
THEOREM OlderRefreshLoses == Spec => []OlderDataLoses
<1>1. Init => Typed /\ Reported /\ Commits
  BY TypedInit, TimelineBegins, CommitsInit
<1>2. Typed /\ Reported /\ Commits /\ [Next]_vars => (Typed /\ Reported /\ Commits)'
  BY TypedNext, ReportedNext, CommitsNext
<1>3. Typed /\ Reported /\ Commits => OlderDataLoses
  BY DEF Reported, Commits, Resolved, Committed, Accounted, OlderDataLoses, Finished, OkSources
<1> QED BY <1>1, <1>2, <1>3, PTL DEF Spec

\* A cancelled run moves no table, composes nothing, and reports no failure of
\* a source that it ended as cancelled, on every schedule of the request, the
\* sources and the merge (#481).
THEOREM CancelledRunsStop == Spec => []CancelledStops
<1>1. Init => Typed /\ Reported /\ ToldAll /\ Commits
  BY TypedInit, TimelineBegins, CommitsInit
<1>2. Typed /\ Reported /\ ToldAll /\ Commits /\ [Next]_vars => (Typed /\ Reported /\ ToldAll /\ Commits)'
  BY TypedNext, ReportedNext, ToldNext, CommitsNext
<1>3. Typed /\ Reported /\ ToldAll /\ Commits => CancelledStops
  <2> SUFFICES ASSUME Typed, Reported, ToldAll, Commits, Finished, manifest.status = "cancelled"
               PROVE  /\ composed.att # run.att
                      /\ \A s \in Sources : table[s].by # run.att
                      /\ \A s \in Sources : src[s].status = "cancelled" => \A e \in log[s] : e[1] # "failed"
    BY DEF CancelledStops
  <2>1. run.phase = "done" /\ run.status = "cancelled"
    BY DEF Finished, Reported
  <2>2. run.cancelled /\ composed.att # run.att
    BY <2>1 DEF Commits, Resolved
  <2>3. \A s \in Sources : table[s].by # run.att
    BY <2>1 DEF Commits, Committed
  <2>4. \A s \in Sources : src[s].status = "cancelled" => \A e \in log[s] : e[1] # "failed"
    BY DEF ToldAll, Told, AllEvents
  <2> QED BY <2>2, <2>3, <2>4
<1> QED BY <1>1, <1>2, <1>3, PTL DEF Spec

-----------------------------------------------------------------------------
(* What is fetched, checkpointed, resumed and persisted.                    *)

\* A readable line and its fragment, if it is there, are of one fetch.
KnownMatch(s) ==
    \A l \in KnownLines(ckpt[s].index) :
        ckpt[s].frags[l.c] # <<>> => ckpt[s].frags[l.c][1].params = l.params

\* The fragments are of this attempt or an earlier one, and of an earlier one
\* until this attempt's fetch begins.
Aged(s) ==
    \A c \in 1 .. NCombos : ckpt[s].frags[c] # <<>> =>
        /\ ckpt[s].frags[c][1].att <= run.att
        /\ run.phase # "idle" /\ src[s].pc = "idle" => ckpt[s].frags[c][1].att < run.att

\* A source whose fetch is complete.
Past(s) == src[s].pc \in {"fetched", "persisted"} \/ src[s].completed # <<>>
Persisted(s) == src[s].pc = "persisted" \/ src[s].completed # <<>>

\* While it fetches, what it would resume was loaded, and matches.
Loaded(s) ==
    src[s].pc = "fetch" =>
        /\ s \in Grid => \A l \in KnownLines(ckpt[s].index) : l.params = Params(l.c, run.ver)
        /\ \A c \in src[s].resumed : /\ ckpt[s].frags[c][1].params = Params(c, run.ver)
                                     /\ ckpt[s].frags[c][1].att < run.att
        /\ Len(src[s].staged) = src[s].k - 1

\* The working copy, call after call.
Staged(s) ==
    src[s].pc = "fetch" \/ Past(s) =>
        \A i \in 1 .. Len(src[s].staged) :
            /\ src[s].staged[i].params = Params(i, run.ver)
            /\ src[s].staged[i].att # run.att <=> i \in src[s].resumed

\* The persisted Bronze, whichever attempt wrote it.
Unmixed(s) ==
    disk[s].bronze # <<>> =>
        /\ Len(disk[s].bronze) = NCalls(s)
        /\ \E v \in Versions : \A c \in DOMAIN disk[s].bronze : disk[s].bronze[c].params = Params(c, v)

Fetched(s) ==
    /\ KnownMatch(s) /\ Aged(s) /\ Loaded(s) /\ Staged(s) /\ Unmixed(s)
    /\ Past(s) => Len(src[s].staged) = NCalls(s)
    /\ Persisted(s) => disk[s].bronze = src[s].staged
    /\ src[s].resumed \subseteq 1 .. NCalls(s)

\* Appending to the index makes no more readable than the line appended.
LEMMA KnownAppended ==
    ASSUME NEW ix \in Seq(LineSet), NEW line \in LineSet
    PROVE  KnownLines(AppendLine(ix, line)) \subseteq KnownLines(ix) \cup {line}
<1> DEFINE new == AppendLine(ix, line)
<1> SUFFICES ASSUME NEW i \in DOMAIN new, \A h \in 1 .. i : new[h].readable
             PROVE  new[i] \in KnownLines(ix) \cup {line}
  BY DEF KnownLines
<1>1. Len(ix) \in Nat /\ DOMAIN ix = 1 .. Len(ix)
  BY LenProperties
<1>2. CASE ix # <<>> /\ Last(ix).open
  <2> DEFINE torn == [Last(ix) EXCEPT !.readable = FALSE, !.open = FALSE]
  <2>1. Len(ix) > 0
    BY <1>1, <1>2, EmptySeq
  <2>2. Front(ix) \in Seq(LineSet) /\ Len(Front(ix)) = Len(ix) - 1 /\ \A j \in 1 .. Len(ix) - 1 : Front(ix)[j] = ix[j]
    BY <1>1, <2>1, ElementOfSeq, SubSeqProperties DEF Front
  <2>3. torn \in LineSet /\ ~torn.readable
    <3>1. Last(ix) \in LineSet
      BY <1>1, <2>1, ElementOfSeq DEF Last
    <3> QED BY <3>1 DEF LineSet
  <2> HIDE DEF torn
  <2>4. new = Append(Front(ix), torn)
    BY <1>2 DEF AppendLine, torn
  <2> DEFINE front == Front(ix)
  <2> HIDE DEF new, front
  <2>5. DOMAIN new = 1 .. Len(ix) /\ new[Len(ix)] = torn /\ \A j \in 1 .. Len(ix) - 1 : new[j] = ix[j]
    <3>1. front \in Seq(LineSet) /\ Len(front) = Len(ix) - 1 /\ \A j \in 1 .. Len(ix) - 1 : front[j] = ix[j]
      BY <2>2 DEF front
    <3>2. new = Append(front, torn)
      BY <2>4 DEF front
    <3>3. new \in Seq(LineSet) /\ Len(new) = Len(ix) /\ new[Len(ix)] = torn
      <4>1. Len(front) + 1 = Len(ix)
        BY <1>1, <2>1, <3>1
      <4>2. new \in Seq(LineSet) /\ Len(new) = Len(front) + 1 /\ new[Len(front) + 1] = torn
        BY <2>3, <3>1, <3>2, AppendProperties
      <4> QED BY <4>1, <4>2
    <3>4. \A j \in 1 .. Len(ix) - 1 : new[j] = front[j]
      BY <1>1, <2>1, <2>3, <3>1, <3>2, AppendProperties
    <3> QED BY <3>1, <3>3, <3>4, LenProperties
  <2>6. i \in 1 .. Len(ix) - 1
    BY <1>1, <2>1, <2>3, <2>5
  <2>7. new[i] = ix[i] /\ \A h \in 1 .. i : ix[h].readable
    BY <1>1, <2>5, <2>6
  <2> QED BY <1>1, <2>6, <2>7 DEF KnownLines
<1>3. CASE ~(ix # <<>> /\ Last(ix).open)
  <2>1. new = Append(ix, line)
    BY <1>3 DEF AppendLine
  <2> HIDE DEF new
  <2>2. /\ DOMAIN new = 1 .. Len(ix) + 1 /\ new[Len(ix) + 1] = line
        /\ \A j \in 1 .. Len(ix) : new[j] = ix[j]
    BY <1>1, <2>1, AppendProperties, LenProperties
  <2>3. CASE i = Len(ix) + 1
    BY <2>2, <2>3
  <2>4. CASE i # Len(ix) + 1
    <3>1. i \in 1 .. Len(ix)
      BY <1>1, <2>2, <2>4
    <3>2. new[i] = ix[i] /\ \A h \in 1 .. i : ix[h].readable
      BY <1>1, <2>2, <3>1
    <3> QED BY <1>1, <3>1, <3>2 DEF KnownLines
  <2> QED BY <2>3, <2>4
<1> QED BY <1>2, <1>3

LEMMA KnownTyped ==
    ASSUME NEW ix \in Seq(LineSet)
    PROVE  \A l \in KnownLines(ix) : l \in LineSet
BY ElementOfSeq, LenProperties DEF KnownLines

LEMMA NothingKnown ==
    /\ KnownLines(NoCkpt.index) = {}
    /\ \A c \in 1 .. NCombos : NoCkpt.frags[c] = <<>>
BY DEF NoCkpt, NoFrags, KnownLines

\* The steps after the fetch, or that end it, leave the working copy as it is.
Later(s) ==
    \/ PersistBronze(s) \/ SealBronze(s) \/ Silver(s) \/ Gold(s) \/ StartExport(s) \/ FinishExport(s)
    \/ Fail(s) \/ (BeginFetch(s) /\ CancelAt(s))

LEMMA LaterEffect ==
    ASSUME Typed, NEW s \in Sources, Later(s)
    PROVE  /\ src'[s].staged = src[s].staged /\ src'[s].resumed = src[s].resumed
           /\ src'[s].pc \notin {"idle", "fetch"} /\ (Past(s)' => Past(s))
           /\ Persisted(s)' => Persisted(s) \/ PersistBronze(s)
           /\ ckpt'[s] = ckpt[s] \/ ckpt'[s] = NoCkpt
           /\ disk'[s].bronze = disk[s].bronze \/ (PersistBronze(s) /\ disk'[s].bronze = src[s].staged)
<1> USE DEF Typed, Types
<1>0. src[s] \in SourceSet /\ disk[s] \in DiskSet
  OBVIOUS
<1>1. ASSUME NEW x \in SourceSet, x.staged = src[s].staged, x.resumed = src[s].resumed,
             x.completed = src[s].completed, Ended(s, x), UNCHANGED ckpt, ~PersistBronze(s)
      PROVE  /\ src'[s].staged = src[s].staged /\ src'[s].resumed = src[s].resumed
             /\ src'[s].pc = "ended" /\ src'[s].completed = src[s].completed
             /\ ckpt'[s] = ckpt[s] /\ disk'[s].bronze = disk[s].bronze
  <2>1. src'[s] = [x EXCEPT !.pc = "ended"] /\ disk'[s] = [disk[s] EXCEPT !.staging = FALSE]
    BY <1>1 DEF Ended
  <2> QED BY <1>0, <1>1, <2>1 DEF SourceSet, DiskSet
<1>2. ASSUME CancelAt(s) \/ Fail(s)
      PROVE  /\ src'[s].staged = src[s].staged /\ src'[s].resumed = src[s].resumed
             /\ src'[s].pc = "ended" /\ src'[s].completed = src[s].completed
             /\ ckpt'[s] = ckpt[s] /\ disk'[s].bronze = disk[s].bronze
  <2>1. PICK st \in {"cancelled", "failed"} : Ended(s, [src[s] EXCEPT !.status = st]) /\ UNCHANGED ckpt
    BY <1>2 DEF CancelAt, Fail
  <2>2. /\ [src[s] EXCEPT !.status = st] \in SourceSet /\ [src[s] EXCEPT !.status = st].staged = src[s].staged
        /\ [src[s] EXCEPT !.status = st].resumed = src[s].resumed
        /\ [src[s] EXCEPT !.status = st].completed = src[s].completed
    BY <1>0 DEF SourceSet
  <2>3. src'[s] = [[src[s] EXCEPT !.status = st] EXCEPT !.pc = "ended"] /\ disk'[s] = [disk[s] EXCEPT !.staging = FALSE]
    BY <2>1 DEF Ended
  <2> QED BY <1>0, <2>1, <2>2, <2>3 DEF SourceSet, DiskSet
<1>3. CASE CancelAt(s) \/ Fail(s)
  BY <1>2, <1>3 DEF Past, Persisted
<1>4. CASE PersistBronze(s)
  <2>1. /\ src'[s] = [src[s] EXCEPT !.pc = "persisted"] /\ disk'[s] = [disk[s] EXCEPT !.bronze = src[s].staged]
        /\ UNCHANGED ckpt /\ src[s].pc = "fetched"
    BY <1>4 DEF PersistBronze
  <2> QED BY <1>0, <1>4, <2>1 DEF SourceSet, DiskSet, Past, Persisted
<1>5. CASE SealBronze(s)
  <2>1. /\ src'[s] = [src[s] EXCEPT !.pc = "bronze", !.completed = Append(src[s].completed, "bronze"), !.kept = {}]
        /\ UNCHANGED disk /\ ckpt'[s] = NoCkpt /\ src[s].pc = "persisted"
    BY <1>5 DEF SealBronze
  <2>2. src'[s].staged = src[s].staged /\ src'[s].resumed = src[s].resumed /\ src'[s].pc = "bronze"
    BY <1>0, <2>1 DEF SourceSet
  <2> QED BY <2>1, <2>2 DEF Past, Persisted
<1>6. CASE (Silver(s) \/ Gold(s)) /\ ~CancelAt(s)
  <2>1. PICK stage \in {"silver", "gold"} :
            /\ src[s].pc \in {"bronze", "silvered"} /\ UNCHANGED ckpt
            /\ disk'[s] = [disk[s] EXCEPT ![stage] = run.att]
            /\ src'[s] = [src[s] EXCEPT !.pc = IF stage = "silver" THEN "silvered" ELSE "golded",
                                        !.completed = Append(src[s].completed, stage),
                                        !.silver = IF stage = "silver" /\ s \in Joined THEN run.att ELSE src[s].silver]
    BY <1>6 DEF Silver, Gold, Stage
  <2>2. disk'[s].bronze = disk[s].bronze
    BY <1>0, <2>1 DEF DiskSet
  <2>3. /\ src'[s].staged = src[s].staged /\ src'[s].resumed = src[s].resumed
        /\ src'[s].pc = IF stage = "silver" THEN "silvered" ELSE "golded"
    BY <1>0, <2>1 DEF SourceSet
  <2>4. src[s].completed # <<>>
    <3>1. src[s].completed \in {<<"bronze">>, <<"bronze", "silver">>}
      BY <2>1 DEF Placed
    <3> QED BY <3>1, Lengths
  <2> QED BY <2>1, <2>2, <2>3, <2>4 DEF Past, Persisted
<1>7. CASE StartExport(s) /\ ~CancelAt(s)
  <2>1. src'[s] = [src[s] EXCEPT !.pc = "export", !.exporting = TRUE] /\ UNCHANGED <<ckpt, disk>>
    BY <1>7 DEF StartExport
  <2>2. /\ src'[s].staged = src[s].staged /\ src'[s].resumed = src[s].resumed /\ src'[s].pc = "export"
        /\ src'[s].completed = src[s].completed
    BY <1>0, <2>1 DEF SourceSet
  <2> QED BY <2>1, <2>2 DEF Past, Persisted
<1>8. CASE FinishExport(s)
  <2>1. /\ src'[s] = [src[s] EXCEPT !.pc = "ended", !.status = "ok", !.declared = s \in Declared]
        /\ disk'[s] = [disk[s] EXCEPT !.export = run.att, !.staging = FALSE] /\ UNCHANGED ckpt
    BY <1>8 DEF FinishExport
  <2>2. /\ src'[s].staged = src[s].staged /\ src'[s].resumed = src[s].resumed /\ src'[s].pc = "ended"
        /\ src'[s].completed = src[s].completed /\ disk'[s].bronze = disk[s].bronze
    BY <1>0, <2>1 DEF SourceSet, DiskSet
  <2> QED BY <2>1, <2>2 DEF Past, Persisted
<1> QED BY <1>3, <1>4, <1>5, <1>6, <1>7, <1>8 DEF Later

\* Nothing is known of a checkpoint that is gone.
LEMMA CkptGone ==
    ASSUME NEW s \in Sources, ckpt'[s] = NoCkpt
    PROVE  KnownMatch(s)' /\ Aged(s)'
<1>1. KnownLines(ckpt'[s].index) = {} /\ \A c \in 1 .. NCombos : ckpt'[s].frags[c] = <<>>
  BY NothingKnown
<1> QED BY <1>1 DEF KnownMatch, Aged

\* A step of the source keeps the attempt and its version.
LEMMA SourceAttempt ==
    ASSUME Typed, NEW s \in Sources, SourceStep(s) \/ Fail(s)
    PROVE  /\ run.phase = "sources" /\ run'.phase = "sources" /\ run'.att = run.att /\ run'.ver = run.ver
           /\ run.ver \in Versions /\ run.att \in Nat /\ run.att > 0
BY SourceFrame, SourceKeepsRun, SameRunFields DEF Typed, Types, Numbered, RunSet

LEMMA FetchedLater ==
    ASSUME Typed, NEW s \in Sources, Fetched(s), Later(s)
    PROVE  Fetched(s)'
<1>0. SourceStep(s) \/ Fail(s)
  BY DEF Later, SourceStep
<1>1. run'.phase = "sources" /\ run'.att = run.att /\ run'.ver = run.ver /\ run.ver \in Versions
  BY <1>0, SourceAttempt
<1>2. /\ src'[s].staged = src[s].staged /\ src'[s].resumed = src[s].resumed
      /\ src'[s].pc \notin {"idle", "fetch"} /\ (Past(s)' => Past(s))
      /\ Persisted(s)' => Persisted(s) \/ PersistBronze(s)
      /\ ckpt'[s] = ckpt[s] \/ ckpt'[s] = NoCkpt
      /\ disk'[s].bronze = disk[s].bronze \/ (PersistBronze(s) /\ disk'[s].bronze = src[s].staged)
  BY LaterEffect
<1>3. KnownMatch(s)' /\ Aged(s)'
  <2>1. CASE ckpt'[s] = ckpt[s]
    BY <1>1, <1>2, <2>1 DEF Fetched, KnownMatch, Aged
  <2>2. CASE ckpt'[s] = NoCkpt
    BY <2>2, CkptGone
  <2> QED BY <1>2, <2>1, <2>2
<1>4. Loaded(s)' /\ Staged(s)' /\ (Past(s)' => Len(src'[s].staged) = NCalls(s))
      /\ src'[s].resumed \subseteq 1 .. NCalls(s)
  BY <1>1, <1>2 DEF Fetched, Loaded, Staged
<1>5. CASE PersistBronze(s)
  <2>1. disk'[s].bronze = src[s].staged /\ Past(s)
    BY <1>5 DEF PersistBronze, Past, Typed, Types, DiskSet
  <2>2. src[s].staged \in Seq(RecSet)
    BY DEF Typed, Types, SourceSet
  <2>3. DOMAIN src[s].staged = 1 .. Len(src[s].staged)
    BY <2>2, LenProperties
  <2>4. \A c \in DOMAIN src[s].staged : src[s].staged[c].params = Params(c, run.ver)
    BY <2>1, <2>3 DEF Fetched, Staged
  <2>5. Unmixed(s)'
    BY <1>1, <2>1, <2>4 DEF Fetched, Unmixed
  <2> QED BY <1>2, <1>3, <1>4, <2>1, <2>5 DEF Fetched, NCalls
<1>6. CASE ~PersistBronze(s)
  <2>1. Unmixed(s)' /\ (Persisted(s)' => disk'[s].bronze = src'[s].staged)
    BY <1>2, <1>6 DEF Fetched, Unmixed
  <2> QED BY <1>3, <1>4, <2>1 DEF Fetched, NCalls
<1> QED BY <1>5, <1>6

LEMMA FetchedBegin ==
    ASSUME Typed, NEW s \in Sources, Fetched(s), BeginFetch(s), ~CancelAt(s)
    PROVE  Fetched(s)'
<1> DEFINE loaded == IF s \in Grid THEN Load(ckpt[s], run.ver) ELSE [ckpt |-> ckpt[s], done |-> {}]
           K == IF loaded.ckpt = ckpt[s] THEN src[s].kept ELSE {}
           R == loaded.done
<1>1. run.phase = "sources" /\ run'.phase = "sources" /\ run'.att = run.att /\ run'.ver = run.ver
  BY SourceAttempt DEF SourceStep
<1>2. /\ src'[s] = [src[s] EXCEPT !.pc = "fetch", !.resumed = R, !.kept = K]
      /\ ckpt'[s] = loaded.ckpt /\ disk'[s] = [disk[s] EXCEPT !.staging = TRUE] /\ src[s].pc = "idle"
  BY DEF BeginFetch, Typed, Types
<1>3. /\ src[s].staged = <<>> /\ src[s].k = 1 /\ src[s].completed = <<>> /\ src[s] \in SourceSet
      /\ disk[s] \in DiskSet /\ ckpt[s].index \in Seq(LineSet)
  BY <1>2 DEF Typed, Types, Placed, Early, CkptSet
<1>4. /\ loaded.ckpt = ckpt[s] \/ loaded.ckpt = NoCkpt
      /\ s \in Grid => \A l \in KnownLines(loaded.ckpt.index) : l.params = Params(l.c, run.ver)
      /\ \A c \in loaded.done : \E l \in KnownLines(ckpt[s].index) :
            /\ l.c = c /\ l.params = Params(c, run.ver) /\ ckpt[s].frags[c] # <<>> /\ loaded.ckpt = ckpt[s]
      /\ s \notin Grid => loaded.done = {}
  <2>1. CASE s \in Grid /\ LoadOk(ckpt[s], run.ver)
    <3>1. loaded = [ckpt |-> ckpt[s], done |-> {l.c : l \in KnownLines(ckpt[s].index)}]
      BY <2>1 DEF Load
    <3>2. loaded.ckpt = ckpt[s] /\ loaded.done = {l.c : l \in KnownLines(ckpt[s].index)}
      BY <3>1
    <3>3. \A l \in KnownLines(ckpt[s].index) : l.params = Params(l.c, run.ver) /\ ckpt[s].frags[l.c] # <<>>
      BY <2>1 DEF LoadOk, Matches
    <3> HIDE DEF loaded
    <3> QED BY <2>1, <3>2, <3>3
  <2>2. CASE s \in Grid /\ ~LoadOk(ckpt[s], run.ver)
    <3>1. loaded = [ckpt |-> NoCkpt, done |-> {}]
      BY <2>2 DEF Load
    <3>2. loaded.ckpt = NoCkpt /\ loaded.done = {}
      BY <3>1
    <3> HIDE DEF loaded
    <3> QED BY <2>2, <3>2, NothingKnown
  <2>3. CASE s \notin Grid
    BY <2>3
  <2> QED BY <2>1, <2>2, <2>3
<1> HIDE DEF loaded, K
<1>5. /\ src'[s].pc = "fetch" /\ src'[s].resumed = loaded.done /\ src'[s].staged = <<>> /\ src'[s].k = 1
      /\ src'[s].completed = <<>> /\ disk'[s].bronze = disk[s].bronze
  BY <1>2, <1>3 DEF SourceSet, DiskSet
<1>6. KnownMatch(s)' /\ Aged(s)'
  <2>1. CASE loaded.ckpt = ckpt[s]
    BY <1>1, <1>2, <1>5, <2>1 DEF Fetched, KnownMatch, Aged
  <2>2. CASE loaded.ckpt = NoCkpt
    BY <1>2, <2>2, CkptGone
  <2> QED BY <1>4, <2>1, <2>2
<1>7. loaded.done \subseteq 1 .. NCalls(s)
  <2>1. \A l \in KnownLines(ckpt[s].index) : l.c \in 1 .. NCombos
    BY <1>3, KnownTyped DEF LineSet
  <2> QED BY <1>4, <2>1 DEF NCalls
<1>8. Loaded(s)'
  <2>1. ASSUME NEW c \in loaded.done
        PROVE  ckpt'[s].frags[c][1].params = Params(c, run.ver) /\ ckpt'[s].frags[c][1].att < run.att
    <3>1. PICK l \in KnownLines(ckpt[s].index) :
              l.c = c /\ l.params = Params(c, run.ver) /\ ckpt[s].frags[c] # <<>> /\ loaded.ckpt = ckpt[s]
      BY <1>4
    <3>2. ckpt[s].frags[c][1].params = Params(c, run.ver)
      BY <3>1 DEF Fetched, KnownMatch
    <3>3. c \in 1 .. NCombos
      BY <1>3, <3>1, KnownTyped DEF LineSet
    <3>4. ckpt[s].frags[c][1].att < run.att
      BY <1>1, <1>2, <3>1, <3>3 DEF Fetched, Aged
    <3> QED BY <1>2, <3>1, <3>2, <3>4
  <2>2. Len(src'[s].staged) = src'[s].k - 1
    BY <1>5
  <2> QED BY <1>1, <1>2, <1>4, <1>5, <2>1, <2>2 DEF Loaded
<1>9. Staged(s)' /\ Unmixed(s)' /\ ~Past(s)' /\ ~Persisted(s)'
  <2>1. ~Past(s)' /\ ~Persisted(s)'
    BY <1>5 DEF Past, Persisted
  <2>2. Unmixed(s)'
    BY <1>5 DEF Fetched, Unmixed
  <2>3. Staged(s)'
    BY <1>5 DEF Staged
  <2> QED BY <2>1, <2>2, <2>3
<1> QED BY <1>5, <1>6, <1>7, <1>8, <1>9 DEF Fetched, NCalls

LEMMA FetchedOther ==
    ASSUME Typed, NEW s \in Sources, Fetched(s), UNCHANGED <<src[s], ckpt[s], disk[s]>>,
           run'.att = run.att, run'.ver = run.ver, run.phase # "idle"
    PROVE  Fetched(s)'
BY DEF Fetched, KnownMatch, Aged, Loaded, Staged, Unmixed, Past, Persisted, NCalls

LEMMA FetchedCall ==
    ASSUME Typed, NEW s \in Sources, Fetched(s), FetchCall(s)
    PROVE  Fetched(s)'
<1> DEFINE c == src[s].k
           x == AfterCall(s)
           line == [c |-> c, params |-> Params(c, run.ver), readable |-> TRUE, open |-> FALSE]
<1>1. /\ run.phase = "sources" /\ run'.phase = "sources" /\ run'.att = run.att /\ run'.ver = run.ver
      /\ run.ver \in Versions /\ run.att \in Nat
  BY SourceAttempt DEF SourceStep
<1>2. /\ src[s].pc = "fetch" /\ src[s] \in SourceSet /\ c \in 1 .. NCalls(s) /\ src[s].completed = <<>>
      /\ ckpt[s] \in CkptSet /\ disk[s] \in DiskSet /\ Placed(s)
  BY DEF FetchCall, Typed, Types, Placed, Early
<1>3. /\ c \in 1 .. NCombos /\ Params(c, run.ver) \in ParamSet
      /\ CallRec(s) \in RecSet /\ Checkpointed(s) \in CkptSet
  BY <1>1, <1>2, CallType DEF Typed
<1>4. CallRec(s).params = Params(c, run.ver) /\ (CallRec(s).att # run.att <=> c \in src[s].resumed)
      /\ CallRec(s).att <= run.att
  <2>1. CASE c \in src[s].resumed
    <3>1. CallRec(s) = ckpt[s].frags[c][1]
      BY <2>1 DEF CallRec
    <3>2. ckpt[s].frags[c][1].params = Params(c, run.ver) /\ ckpt[s].frags[c][1].att < run.att
      BY <1>2, <2>1 DEF Fetched, Loaded
    <3> QED BY <1>1, <1>3, <2>1, <3>1, <3>2 DEF RecSet
  <2>2. CASE c \notin src[s].resumed
    BY <1>1, <2>2 DEF CallRec, Rec
  <2> QED BY <2>1, <2>2
<1>5. /\ x.staged = Append(src[s].staged, CallRec(s)) /\ x.k = c + 1 /\ x.resumed = src[s].resumed
      /\ x.completed = <<>> /\ (x.pc = "fetched" => c = Cardinality(Calls(s))) /\ x.pc \in {"fetch", "fetched"}
  BY <1>2 DEF AfterCall, SourceSet
<1>6. x \in SourceSet
  BY CallTyped
<1> HIDE DEF x
<1>7. /\ src'[s].staged = x.staged /\ src'[s].resumed = x.resumed /\ src'[s].completed = x.completed
      /\ src'[s].k = x.k /\ src'[s].pc \in {x.pc, "ended"} /\ disk'[s].bronze = disk[s].bronze
  <2>1. CASE run.cancel /\ src[s].k < Cardinality(Calls(s))
    <3>1. /\ src'[s] = [[x EXCEPT !.status = "cancelled"] EXCEPT !.pc = "ended"]
          /\ disk'[s] = [disk[s] EXCEPT !.staging = FALSE]
      BY <2>1 DEF FetchCall, Ended, x, Typed, Types
    <3> QED BY <1>2, <1>6, <3>1 DEF SourceSet, DiskSet
  <2>2. CASE ~(run.cancel /\ src[s].k < Cardinality(Calls(s)))
    BY <2>2 DEF FetchCall, x, Typed, Types
  <2> QED BY <2>1, <2>2
<1>8. ckpt'[s] = Checkpointed(s)
  BY DEF FetchCall, Typed, Types
<1>9. Len(src[s].staged) = c - 1 /\ src[s].staged \in Seq(RecSet)
  BY <1>2 DEF Fetched, Loaded, SourceSet
<1>10. /\ Len(src'[s].staged) = c /\ src'[s].staged[c] = CallRec(s)
       /\ \A i \in 1 .. c - 1 : src'[s].staged[i] = src[s].staged[i]
  BY <1>3, <1>5, <1>7, <1>9, AppendProperties
<1>11. Staged(s)'
  <2>1. ASSUME NEW i \in 1 .. c
        PROVE  /\ src'[s].staged[i].params = Params(i, run.ver)
               /\ src'[s].staged[i].att # run.att <=> i \in src[s].resumed
    <3>1. CASE i = c
      BY <1>4, <1>10, <3>1
    <3>2. CASE i # c
      <4>1. i \in 1 .. c - 1
        BY <1>3, <3>2
      <4> QED BY <1>2, <1>9, <1>10, <4>1 DEF Fetched, Staged
    <3> QED BY <3>1, <3>2
  <2> QED BY <1>1, <1>5, <1>7, <1>10, <2>1 DEF Staged
<1>12. Past(s)' => Len(src'[s].staged) = NCalls(s)
  <2>1. Past(s)' => x.pc = "fetched"
    BY <1>5, <1>7 DEF Past
  <2> QED BY <1>5, <1>10, <2>1, CallCount
<1>13. ~Persisted(s)'
  BY <1>5, <1>7 DEF Persisted
<1>14. KnownMatch(s)' /\ Aged(s)' /\ Loaded(s)'
  <2>1. Len(src'[s].staged) = src'[s].k - 1
    BY <1>3, <1>5, <1>7, <1>10
  <2>2. CASE s \in Grid /\ c \notin src[s].resumed
    <3>1. /\ ckpt'[s].frags = [ckpt[s].frags EXCEPT ![c] = <<CallRec(s)>>]
          /\ ckpt'[s].index = AppendLine(ckpt[s].index, line)
      BY <1>8, <2>2 DEF Checkpointed
    <3>2. ckpt[s].frags \in [1 .. NCombos -> Seq(RecSet)] /\ ckpt[s].index \in Seq(LineSet)
      BY <1>2 DEF CkptSet
    <3>3. line \in LineSet
      BY <1>3 DEF LineSet
    <3>4. line.c = c /\ line.params = Params(c, run.ver)
      OBVIOUS
    <3> HIDE DEF line
    <3>5. KnownLines(ckpt'[s].index) \subseteq KnownLines(ckpt[s].index) \cup {line}
      BY <3>1, <3>2, <3>3, KnownAppended
    <3>6. \A l \in KnownLines(ckpt'[s].index) : l.params = Params(l.c, run.ver) /\ l.c \in 1 .. NCombos
      <4>1. \A l \in KnownLines(ckpt[s].index) : l.params = Params(l.c, run.ver) /\ l.c \in 1 .. NCombos
        BY <1>2, <2>2, <3>2, KnownTyped DEF Fetched, Loaded, LineSet
      <4> QED BY <1>3, <3>4, <3>5, <4>1
    <3>7. ckpt'[s].frags[c] = <<CallRec(s)>> /\ ckpt'[s].frags[c][1] = CallRec(s)
      <4>1. ckpt'[s].frags[c] = <<CallRec(s)>>
        BY <1>3, <3>1, <3>2
      <4> QED BY <4>1
    <3>8. \A d \in 1 .. NCombos : d # c => ckpt'[s].frags[d] = ckpt[s].frags[d]
      BY <3>1, <3>2
    <3>9. KnownMatch(s)'
      <4>1. ASSUME NEW l \in KnownLines(ckpt'[s].index), ckpt'[s].frags[l.c] # <<>>
            PROVE  ckpt'[s].frags[l.c][1].params = l.params
        <5>1. CASE l.c = c
          BY <1>4, <3>6, <3>7, <5>1
        <5>2. CASE l.c # c
          <6>1. l \in KnownLines(ckpt[s].index)
            BY <3>4, <3>5, <5>2
          <6>2. ckpt'[s].frags[l.c] = ckpt[s].frags[l.c]
            BY <3>6, <3>8, <5>2
          <6> QED BY <4>1, <6>1, <6>2 DEF Fetched, KnownMatch
        <5> QED BY <5>1, <5>2
      <4> QED BY <4>1 DEF KnownMatch
    <3>10. Aged(s)'
      <4>1. \A d \in 1 .. NCombos : ckpt'[s].frags[d] # <<>> => ckpt'[s].frags[d][1].att <= run.att
        BY <1>4, <3>7, <3>8 DEF Fetched, Aged
      <4> QED BY <1>1, <1>5, <1>7, <4>1 DEF Aged
    <3>11. Loaded(s)'
      <4>1. \A d \in src[s].resumed : d # c /\ d \in 1 .. NCombos
        BY <1>2, <2>2 DEF SourceSet
      <4>2. \A d \in src[s].resumed : /\ ckpt'[s].frags[d][1].params = Params(d, run.ver)
                                      /\ ckpt'[s].frags[d][1].att < run.att
        BY <1>2, <3>8, <4>1 DEF Fetched, Loaded
      <4> QED BY <1>1, <1>5, <1>7, <2>1, <3>6, <4>2 DEF Loaded
    <3> QED BY <3>9, <3>10, <3>11
  <2>3. CASE ~(s \in Grid /\ c \notin src[s].resumed)
    <3>1. ckpt'[s] = ckpt[s]
      BY <1>8, <2>3 DEF Checkpointed
    <3>2. KnownMatch(s)' /\ Aged(s)'
      BY <1>1, <1>5, <1>7, <3>1 DEF Fetched, KnownMatch, Aged
    <3>3. Loaded(s)'
      BY <1>1, <1>2, <1>5, <1>7, <2>1, <3>1 DEF Fetched, Loaded
    <3> QED BY <3>2, <3>3
  <2> QED BY <2>2, <2>3
<1>15. Unmixed(s)' /\ src'[s].resumed \subseteq 1 .. NCalls(s)
  BY <1>5, <1>7 DEF Fetched, Unmixed
<1> QED BY <1>11, <1>12, <1>13, <1>14, <1>15 DEF Fetched, NCalls

\* An attempt that begins finds only what earlier ones left.
LEMMA FetchedStart ==
    ASSUME Typed, NEW s \in Sources, Fetched(s), StartRun
    PROVE  Fetched(s)'
<1>1. Begun(src[s])' /\ UNCHANGED <<ckpt, disk>> /\ run'.att = run.att + 1
  BY TypedStart, TypedForget DEF StartRun
<1>2. run.att \in Nat /\ ckpt[s].frags \in [1 .. NCombos -> Seq(RecSet)]
  BY DEF Typed, Types, RunSet, CkptSet
<1>3. \A c \in 1 .. NCombos : ckpt[s].frags[c] # <<>> => ckpt[s].frags[c][1].att \in Nat
  <2>1. ASSUME NEW c \in 1 .. NCombos, ckpt[s].frags[c] # <<>> PROVE ckpt[s].frags[c][1] \in RecSet
    <3>1. ckpt[s].frags[c] \in Seq(RecSet)
      BY <1>2
    <3> QED BY <2>1, <3>1, EmptySeq, LenProperties, ElementOfSeq
  <2> QED BY <2>1 DEF RecSet
<1>4. Aged(s)'
  BY <1>1, <1>2, <1>3 DEF Fetched, Aged
<1>5. KnownMatch(s)' /\ Unmixed(s)'
  BY <1>1 DEF Fetched, KnownMatch, Unmixed
<1>6. Loaded(s)' /\ Staged(s)' /\ ~Past(s)' /\ ~Persisted(s)' /\ src'[s].resumed = {}
  BY <1>1 DEF Begun, Loaded, Staged, Past, Persisted
<1> QED BY <1>4, <1>5, <1>6 DEF Fetched, NCalls

\* A crash leaves a fragment without its line, a line cut short, or neither.
LEMMA FetchedCrash ==
    ASSUME Typed, NEW s \in Sources, Fetched(s), NEW k \in Torn(s), NEW d \in Swapped(s),
           ckpt'[s] = k, disk'[s] = d, Begun(src[s])', run'.att = run.att, run.phase # "idle", run'.phase = "idle"
    PROVE  Fetched(s)'
<1>1. ckpt[s] \in CkptSet /\ disk[s] \in DiskSet /\ run.att \in Nat
  BY DEF Typed, Types, RunSet
<1>2. Loaded(s)' /\ Staged(s)' /\ ~Past(s)' /\ ~Persisted(s)' /\ src'[s].resumed = {}
  BY DEF Begun, Loaded, Staged, Past, Persisted
<1>3. Unmixed(s)'
  <2>1. d = disk[s] \/ d = [disk[s] EXCEPT !.bronze = <<>>] \/ d = [disk[s] EXCEPT !.silver = NoRun]
        \/ d = [disk[s] EXCEPT !.gold = NoRun]
    BY DEF Swapped
  <2>2. d.bronze = disk[s].bronze \/ d.bronze = <<>>
    BY <1>1, <2>1 DEF DiskSet
  <2> QED BY <2>2 DEF Fetched, Unmixed
<1>4. KnownMatch(s)' /\ Aged(s)'
  <2>1. CASE k = ckpt[s]
    BY <2>1 DEF Fetched, KnownMatch, Aged
  <2>2. CASE k # ckpt[s]
    <3> DEFINE c == src[s].k
               line(r) == [c |-> c, params |-> Params(c, run.ver), readable |-> r, open |-> TRUE]
               rec == Rec(run.att, c, run.ver)
               frags == [ckpt[s].frags EXCEPT ![c] = <<rec>>]
    <3>1. src[s].pc = "fetch" /\ s \in Grid
      BY <2>2 DEF Torn
    <3>2. c \in 1 .. NCombos /\ run.ver \in Versions
      BY <3>1, CallCount DEF Typed, Placed, Numbered
    <3>3. Params(c, run.ver) \in ParamSet
      BY <3>2 DEF Params, ParamSet
    <3>4. rec.params = Params(c, run.ver) /\ rec.att = run.att
      BY DEF Rec
    <3>5. \A r \in BOOLEAN : line(r) \in LineSet /\ line(r).c = c /\ line(r).params = Params(c, run.ver)
      BY <3>2, <3>3 DEF LineSet
    <3> HIDE DEF line, rec
    <3>6. ckpt[s].frags \in [1 .. NCombos -> Seq(RecSet)] /\ ckpt[s].index \in Seq(LineSet)
      BY <1>1 DEF CkptSet
    <3>7. frags[c] = <<rec>> /\ frags[c][1] = rec /\ \A e \in 1 .. NCombos : e # c => frags[e] = ckpt[s].frags[e]
      BY <3>2, <3>6
    <3> HIDE DEF frags
    <3>8. \/ k = [ckpt[s] EXCEPT !.frags = frags]
          \/ \E r \in BOOLEAN : k = [frags |-> frags, index |-> AppendLine(ckpt[s].index, line(r))]
      BY <2>2 DEF Torn, frags, line, rec
    <3>9. k.frags = frags
      BY <1>1, <3>8 DEF CkptSet
    <3>10. k.index = ckpt[s].index \/ \E r \in BOOLEAN : k.index = AppendLine(ckpt[s].index, line(r))
      BY <1>1, <3>8 DEF CkptSet
    <3>11. \A l \in KnownLines(k.index) :
               /\ l.params = Params(l.c, run.ver) /\ l.c \in 1 .. NCombos
               /\ l.c # c => l \in KnownLines(ckpt[s].index)
      <4>1. \A l \in KnownLines(ckpt[s].index) : l.params = Params(l.c, run.ver) /\ l.c \in 1 .. NCombos
        BY <3>1, <3>6, KnownTyped DEF Fetched, Loaded, LineSet
      <4>2. ASSUME NEW r \in BOOLEAN, k.index = AppendLine(ckpt[s].index, line(r))
            PROVE  KnownLines(k.index) \subseteq KnownLines(ckpt[s].index) \cup {line(r)}
        BY <3>5, <3>6, <4>2, KnownAppended
      <4> QED BY <3>2, <3>5, <3>10, <4>1, <4>2
    <3>12. KnownMatch(s)'
      <4>1. ASSUME NEW l \in KnownLines(k.index), k.frags[l.c] # <<>>
            PROVE  k.frags[l.c][1].params = l.params
        <5>1. CASE l.c = c
          BY <3>4, <3>7, <3>9, <3>11, <5>1
        <5>2. CASE l.c # c
          BY <3>7, <3>9, <3>11, <4>1, <5>2 DEF Fetched, KnownMatch
        <5> QED BY <5>1, <5>2
      <4> QED BY <4>1 DEF KnownMatch
    <3>13. Aged(s)'
      <4>1. \A e \in 1 .. NCombos : k.frags[e] # <<>> => k.frags[e][1].att <= run.att
        BY <1>1, <3>4, <3>7, <3>9 DEF Fetched, Aged
      <4> QED BY <4>1 DEF Aged
    <3> QED BY <3>12, <3>13
  <2> QED BY <2>1, <2>2
<1> QED BY <1>2, <1>3, <1>4 DEF Fetched, NCalls

FetchedAll == \A s \in Sources : Fetched(s)

LEMMA FetchedInit == Init => FetchedAll
<1> SUFFICES ASSUME Init, NEW s \in Sources PROVE Fetched(s)
  BY DEF FetchedAll
<1>1. /\ src[s].pc = "idle" /\ src[s].completed = <<>> /\ src[s].resumed = {}
      /\ ckpt[s] = NoCkpt /\ disk[s].bronze = <<>>
  BY DEF Init, NoSource, NoDisk
<1>2. KnownMatch(s) /\ Aged(s)
  BY <1>1, NothingKnown DEF KnownMatch, Aged
<1> QED BY <1>1, <1>2 DEF Fetched, Loaded, Staged, Unmixed, Past, Persisted

LEMMA FetchedNext ==
    ASSUME Typed, FetchedAll, [Next]_vars
    PROVE  FetchedAll'
<1> USE DEF FetchedAll
<1>1. CASE UNCHANGED vars
  BY <1>1 DEF vars, Fetched, KnownMatch, Aged, Loaded, Staged, Unmixed, Past, Persisted, NCalls
<1>2. CASE FinalStep
  BY <1>2, FinalFrame, FetchedOther
<1>3. CASE StartRun
  BY <1>3, FetchedStart
<1>4. CASE Crash
  <2>1. /\ Forget /\ run'.att = run.att /\ run'.phase = "idle"
        /\ run.phase # "idle"
    BY <1>4, TypedCrash DEF Crash
  <2>2. PICK s \in Sources : \E k \in Torn(s), d \in Swapped(s) :
            ckpt' = [ckpt EXCEPT ![s] = k] /\ disk' = [disk EXCEPT ![s] = d]
    BY <1>4 DEF Crash
  <2>3. PICK k \in Torn(s), d \in Swapped(s) : ckpt' = [ckpt EXCEPT ![s] = k] /\ disk' = [disk EXCEPT ![s] = d]
    BY <2>2
  <2>4. ckpt'[s] = k /\ disk'[s] = d /\ \A t \in Sources : t # s => ckpt'[t] = ckpt[t] /\ disk'[t] = disk[t]
    BY <2>3 DEF Typed, Types
  <2>5. \A t \in Sources : Begun(src[t])'
    BY <2>1, TypedForget
  <2>6. Fetched(s)'
    BY <2>1, <2>4, <2>5, FetchedCrash
  <2>7. ASSUME NEW t \in Sources, t # s PROVE Fetched(t)'
    <3>1. ckpt[t] \in Torn(t) /\ disk[t] \in Swapped(t)
      BY DEF Torn, Swapped
    <3> QED BY <2>1, <2>4, <2>5, <2>7, <3>1, FetchedCrash
  <2> QED BY <2>6, <2>7
<1>5. ASSUME NEW s \in Sources, SourceStep(s) \/ Fail(s) PROVE FetchedAll'
  <2>1. run.phase # "idle" /\ run'.att = run.att /\ run'.ver = run.ver
    BY <1>5, SourceAttempt
  <2>2. Fetched(s)'
    BY <1>5, FetchedLater, FetchedBegin, FetchedCall DEF SourceStep, Later
  <2>3. ASSUME NEW t \in Sources, t # s PROVE Fetched(t)'
    BY <1>5, <2>1, <2>3, SourceFrame, FetchedOther DEF Typed
  <2> QED BY <2>2, <2>3
<1> QED BY <1>1, <1>2, <1>3, <1>4, <1>5 DEF Next, FinalStep

\* Whatever attempts fetched, tore, resumed or discarded before it, a persisted
\* Bronze holds every combination, each with the parameters of one version of
\* the specification (CombinationCheckpoint.load, build_bronze_artifact).
THEOREM BronzeNeverMixed == Spec => []BronzeUnmixed
<1>1. Init => Typed /\ FetchedAll
  BY TypedInit, FetchedInit
<1>2. Typed /\ FetchedAll /\ [Next]_vars => (Typed /\ FetchedAll)'
  BY TypedNext, FetchedNext
<1>3. Typed /\ FetchedAll => BronzeUnmixed
  BY CallCount DEF FetchedAll, Fetched, Unmixed, BronzeUnmixed
<1> QED BY <1>1, <1>2, <1>3, PTL DEF Spec

-----------------------------------------------------------------------------
(* The manifest and the disk.                                              *)

\* What a source completed is on disk, from this attempt.
OnDisk(s) ==
    /\ src[s].status # "running" => ~disk[s].staging
    /\ src[s].completed # <<>> => ckpt[s] = NoCkpt
    /\ src[s].completed \in {<<"bronze", "silver">>, Whole} => disk[s].silver = run.att
    /\ src[s].completed = Whole => disk[s].gold = run.att
    /\ src[s].status = "ok" => disk[s].export = run.att /\ (src[s].declared <=> s \in Declared)

\* A source that has completed nothing, and has not ended or left its staging.
LEMMA OnDiskEarly ==
    ASSUME NEW s \in Sources, src[s].completed = <<>>, src[s].status # "ok",
           src[s].status # "running" => ~disk[s].staging
    PROVE  OnDisk(s)
BY Lengths DEF OnDisk

\* A source that is cancelled or fails leaves what it completed.
LEMMA OnDiskEnded ==
    ASSUME Typed, NEW s \in Sources, OnDisk(s), CancelAt(s) \/ Fail(s), run'.att = run.att
    PROVE  OnDisk(s)'
<1>1. src[s] \in SourceSet /\ disk[s] \in DiskSet
  BY DEF Typed, Types
<1>2. PICK st \in {"cancelled", "failed"} : Ended(s, [src[s] EXCEPT !.status = st]) /\ UNCHANGED ckpt
  BY DEF CancelAt, Fail
<1>3. /\ src'[s] = [[src[s] EXCEPT !.status = st] EXCEPT !.pc = "ended"]
      /\ disk'[s] = [disk[s] EXCEPT !.staging = FALSE]
  BY <1>2 DEF Ended, Typed, Types
<1>4. src'[s].status = st /\ src'[s].completed = src[s].completed
  BY <1>1, <1>3 DEF SourceSet
<1>5. disk'[s].silver = disk[s].silver /\ disk'[s].gold = disk[s].gold /\ ~disk'[s].staging
  BY <1>1, <1>3 DEF DiskSet
<1> QED BY <1>2, <1>4, <1>5 DEF OnDisk

LEMMA OnDiskOwn ==
    ASSUME Typed, NEW s \in Sources, OnDisk(s), SourceStep(s) \/ Fail(s)
    PROVE  OnDisk(s)'
<1>0. /\ src[s] \in SourceSet /\ disk[s] \in DiskSet /\ Placed(s) /\ src[s].status = "running"
      /\ run'.att = run.att
  BY SourceAttempt, SourceFrame DEF Typed, Types
<1>1. CASE CancelAt(s) \/ Fail(s)
  BY <1>0, <1>1, OnDiskEnded
<1>2. CASE BeginFetch(s) /\ ~CancelAt(s)
  <2> DEFINE loaded == IF s \in Grid THEN Load(ckpt[s], run.ver) ELSE [ckpt |-> ckpt[s], done |-> {}]
             K == IF loaded.ckpt = ckpt[s] THEN src[s].kept ELSE {}
             R == loaded.done
  <2>1. src'[s] = [src[s] EXCEPT !.pc = "fetch", !.resumed = R, !.kept = K] /\ src[s].pc = "idle"
    BY <1>2 DEF BeginFetch, Typed, Types
  <2> HIDE DEF K, R
  <2>2. src'[s].completed = src[s].completed /\ src'[s].status = "running" /\ src[s].completed = <<>>
    BY <1>0, <2>1 DEF SourceSet, Placed, Early
  <2> QED BY <2>2, OnDiskEarly, Lengths DEF OnDisk
<1>3. CASE FetchCall(s)
  <2> DEFINE x == AfterCall(s)
  <2>1. x \in SourceSet
    BY <1>3, CallTyped
  <2>2. x.completed = <<>> /\ x.status = "running"
    <3>1. src[s].completed = <<>>
      BY <1>0, <1>3 DEF FetchCall, Placed, Early
    <3> QED BY <1>0, <3>1 DEF AfterCall, SourceSet
  <2>3. CASE run.cancel /\ src[s].k < Cardinality(Calls(s))
    <3>1. /\ src'[s] = [[x EXCEPT !.status = "cancelled"] EXCEPT !.pc = "ended"]
          /\ disk'[s] = [disk[s] EXCEPT !.staging = FALSE]
      BY <1>3, <2>3 DEF FetchCall, Ended, Typed, Types
    <3> HIDE DEF x
    <3>2. src'[s].completed = <<>> /\ src'[s].status = "cancelled" /\ ~disk'[s].staging
      BY <1>0, <2>1, <2>2, <3>1 DEF SourceSet, DiskSet
    <3> QED BY <3>2, Lengths DEF OnDisk
  <2>4. CASE ~(run.cancel /\ src[s].k < Cardinality(Calls(s)))
    <3>1. src'[s] = x
      BY <1>3, <2>4 DEF FetchCall, Typed, Types
    <3> QED BY <2>2, <3>1, Lengths DEF OnDisk
  <2> QED BY <2>3, <2>4
<1>4. CASE PersistBronze(s)
  <2>1. src'[s] = [src[s] EXCEPT !.pc = "persisted"] /\ src[s].pc = "fetched"
    BY <1>4 DEF PersistBronze, Typed, Types
  <2>2. src'[s].completed = <<>> /\ src'[s].status = "running"
    BY <1>0, <2>1 DEF SourceSet, Placed, Early
  <2> QED BY <2>2, Lengths DEF OnDisk
<1>5. CASE SealBronze(s)
  <2>1. /\ src'[s] = [src[s] EXCEPT !.pc = "bronze", !.completed = Append(src[s].completed, "bronze"), !.kept = {}]
        /\ ckpt'[s] = NoCkpt /\ src[s].completed = <<>>
    BY <1>0, <1>5 DEF SealBronze, Typed, Types, Placed, Early
  <2>2. src'[s].completed = <<"bronze">> /\ src'[s].status = "running"
    BY <1>0, <2>1, Completing DEF SourceSet
  <2> QED BY <2>1, <2>2, Lengths DEF OnDisk
<1>6. CASE Silver(s) /\ ~CancelAt(s)
  <2> DEFINE n == IF s \in Joined THEN run.att ELSE src[s].silver
  <2>1. /\ src'[s] = [src[s] EXCEPT !.pc = "silvered", !.completed = Append(src[s].completed, "silver"), !.silver = n]
        /\ disk'[s] = [disk[s] EXCEPT !["silver"] = run.att] /\ UNCHANGED ckpt /\ src[s].pc = "bronze"
    BY <1>6 DEF Silver, Stage, Typed, Types
  <2> HIDE DEF n
  <2>2. src[s].completed = <<"bronze">>
    BY <1>0, <2>1 DEF Placed
  <2>3. src'[s].completed = <<"bronze", "silver">> /\ src'[s].status = "running"
    BY <1>0, <2>1, <2>2, Completing DEF SourceSet
  <2>4. disk'[s].silver = run.att
    BY <1>0, <2>1 DEF DiskSet
  <2> QED BY <1>0, <2>1, <2>2, <2>3, <2>4, Lengths DEF OnDisk
<1>7. CASE Gold(s) /\ ~CancelAt(s)
  <2>1. /\ src'[s] = [src[s] EXCEPT !.pc = "golded", !.completed = Append(src[s].completed, "gold"),
                                    !.silver = src[s].silver]
        /\ disk'[s] = [disk[s] EXCEPT !["gold"] = run.att] /\ UNCHANGED ckpt /\ src[s].pc = "silvered"
    BY <1>7 DEF Gold, Stage, Typed, Types
  <2>2. src[s].completed = <<"bronze", "silver">>
    BY <1>0, <2>1 DEF Placed
  <2>3. src'[s].completed = Whole /\ src'[s].status = "running"
    BY <1>0, <2>1, <2>2, Completing DEF SourceSet
  <2>4. disk'[s].silver = disk[s].silver /\ disk'[s].gold = run.att
    BY <1>0, <2>1 DEF DiskSet
  <2> QED BY <1>0, <2>1, <2>2, <2>3, <2>4, Lengths DEF OnDisk
<1>8. CASE StartExport(s) /\ ~CancelAt(s)
  <2>1. src'[s] = [src[s] EXCEPT !.pc = "export", !.exporting = TRUE] /\ UNCHANGED <<ckpt, disk>>
    BY <1>8 DEF StartExport, Typed, Types
  <2>2. src'[s].completed = src[s].completed /\ src'[s].status = "running"
    BY <1>0, <2>1 DEF SourceSet
  <2> QED BY <1>0, <2>1, <2>2 DEF OnDisk
<1>9. CASE FinishExport(s)
  <2>1. /\ src'[s] = [src[s] EXCEPT !.pc = "ended", !.status = "ok", !.declared = s \in Declared]
        /\ disk'[s] = [disk[s] EXCEPT !.export = run.att, !.staging = FALSE] /\ UNCHANGED ckpt
    BY <1>9 DEF FinishExport, Typed, Types
  <2>2. src'[s].completed = src[s].completed /\ src'[s].status = "ok"
    BY <1>0, <2>1 DEF SourceSet
  <2>3. src'[s].declared = (s \in Declared)
    BY <1>0, <2>1 DEF SourceSet
  <2>4. /\ disk'[s].silver = disk[s].silver /\ disk'[s].gold = disk[s].gold
        /\ disk'[s].export = run.att /\ ~disk'[s].staging
    BY <1>0, <2>1 DEF DiskSet
  <2> QED BY <1>0, <2>1, <2>2, <2>3, <2>4 DEF OnDisk
<1> QED BY <1>1, <1>2, <1>3, <1>4, <1>5, <1>6, <1>7, <1>8, <1>9 DEF SourceStep

\* What the run composed, and when it is ok.
Ran ==
    /\ run.phase \in {"idle", "sources"} => run.comp = "none"
    /\ run.comp = "ok" => composed.att = run.att /\ composed.unmasked = UnmaskedSides
    /\ run.phase \in {"merged", "decided", "done"} /\ ~run.cancelled =>
          \A s \in Sources : src[s].status \in {"ok", "failed"}
    /\ run.phase \in {"decided", "done"} /\ run.status = "ok" =>
          (\A s \in Sources : src[s].status = "ok") /\ (Joined # {} => run.comp = "ok")

Written == Ran /\ \A s \in Sources : OnDisk(s)

LEMMA RanNext ==
    ASSUME Typed, Ran, [Next]_vars
    PROVE  Ran'
<1> USE DEF Typed
<1>1. CASE UNCHANGED vars
  BY <1>1 DEF vars, Ran, UnmaskedSides
<1>2. ASSUME NEW s \in Sources, SourceStep(s) \/ Fail(s) PROVE Ran'
  <2>1. run.phase = "sources" /\ run'.phase = "sources" /\ run'.comp = run.comp
    BY <1>2, SourceFrame, SourceKeepsRun, SameRunFields
  <2> QED BY <2>1 DEF Ran
<1>3. CASE StartRun \/ Crash
  <2>1. run'.phase \in {"idle", "sources"} /\ run'.comp = "none"
    BY <1>3, TypedStart, TypedCrash
  <2> QED BY <2>1 DEF Ran
<1>4. CASE Cancel
  <2>1. run.phase = "sources" /\ run'.phase = "sources" /\ run'.comp = run.comp
    BY <1>4 DEF Cancel, Types, RunSet
  <2> QED BY <2>1 DEF Ran
<1>5. CASE Merge
  <2> DEFINE z == run.cancel \/ \E s \in Sources : src[s].status = "cancelled"
  <2>1. /\ run.phase = "sources" /\ AllEnded /\ run' = [run EXCEPT !.phase = "merged", !.cancelled = z]
        /\ UNCHANGED src
    BY <1>5 DEF Merge
  <2>2. ~z => \A s \in Sources : src[s].status # "cancelled"
    OBVIOUS
  <2> HIDE DEF z
  <2>3. run'.phase = "merged" /\ run'.cancelled = z /\ run'.comp = run.comp
    BY <2>1 DEF Types, RunSet
  <2>4. \A s \in Sources : src[s].status \in {"running", "ok", "failed", "cancelled"} /\ src[s].status # "running"
    BY <2>1 DEF Types, SourceSet, AllEnded
  <2> QED BY <2>1, <2>2, <2>3, <2>4 DEF Ran
<1>6. CASE Compose
  <2>1. /\ run.phase = "merged" /\ run'.phase = "merged" /\ run'.cancelled = run.cancelled /\ run'.att = run.att
        /\ UNCHANGED src
    BY <1>6 DEF Compose, Types, RunSet
  <2>2. run'.comp = "ok" => composed' = [att |-> run.att, unmasked |-> UnmaskedSides]
    BY <1>6 DEF Compose, Types, RunSet
  <2>3. UnmaskedSides' = UnmaskedSides
    BY <2>1 DEF UnmaskedSides
  <2>4. run'.comp = "ok" => composed'.att = run.att /\ composed'.unmasked = UnmaskedSides
    BY <2>2
  <2> QED BY <2>1, <2>3, <2>4 DEF Ran
<1>7. CASE Decide
  <2> DEFINE todo == IF DecidedStatus = "ok" THEN OkSources ELSE {}
  <2>1. /\ run' = [run EXCEPT !.phase = "decided", !.status = DecidedStatus, !.todo = todo]
        /\ run.phase = "merged" /\ ~ComposeDue /\ UNCHANGED <<src, composed>>
    BY <1>7, DecideEffect DEF Decide
  <2> HIDE DEF todo
  <2>2. /\ run'.phase = "decided" /\ run'.status = DecidedStatus /\ run'.comp = run.comp /\ run'.att = run.att
        /\ run'.cancelled = run.cancelled /\ run.comp \in {"none", "ok", "failed", "skipped"}
    BY <2>1 DEF Types, RunSet
  <2>3. ASSUME DecidedStatus = "ok"
        PROVE  (\A s \in Sources : src[s].status = "ok") /\ (Joined # {} => run.comp = "ok")
    <3>1. ~run.cancelled /\ Errors = {} /\ run.comp \notin {"failed", "skipped"}
      BY <2>3 DEF DecidedStatus
    <3>2. Joined # {} => run.comp = "ok"
      BY <2>1, <2>2, <3>1 DEF ComposeDue
    <3>3. \A s \in Sources : src[s].status = "ok"
      BY <2>1, <3>1 DEF Ran, Errors
    <3> QED BY <3>2, <3>3
  <2>4. UnmaskedSides' = UnmaskedSides
    BY <2>1 DEF UnmaskedSides
  <2> QED BY <2>1, <2>2, <2>3, <2>4 DEF Ran
<1>8. ASSUME NEW s \in Sources, Materialize(s) \/ CommitFails(s) PROVE Ran'
  <2>1. /\ run.phase = "decided" /\ run'.phase = "decided" /\ run'.status = run.status /\ run'.comp = run.comp
        /\ run'.att = run.att /\ run'.cancelled = run.cancelled /\ UNCHANGED <<src, composed>>
    BY <1>8, MaterializeEffect DEF SameAttempt
  <2>2. UnmaskedSides' = UnmaskedSides
    BY <2>1 DEF UnmaskedSides
  <2> QED BY <2>1, <2>2 DEF Ran
<1>9. CASE WriteManifest
  <2>1. /\ run.phase = "decided" /\ run'.phase = "done" /\ run'.status = run.status /\ run'.comp = run.comp
        /\ run'.att = run.att /\ run'.cancelled = run.cancelled /\ UNCHANGED <<src, composed>>
    BY <1>9 DEF WriteManifest, Types, RunSet
  <2>2. UnmaskedSides' = UnmaskedSides
    BY <2>1 DEF UnmaskedSides
  <2> QED BY <2>1, <2>2 DEF Ran
<1>10. ASSUME NEW s \in Sources, RivalCommit(s) PROVE Ran'
  <2>1. UNCHANGED <<run, src, composed>>
    BY <1>10 DEF RivalCommit
  <2> QED BY <2>1 DEF Ran, UnmaskedSides
<1> QED BY <1>1, <1>2, <1>3, <1>4, <1>5, <1>6, <1>7, <1>8, <1>9, <1>10 DEF Next, Finalize

LEMMA WrittenNext ==
    ASSUME Typed, Written, [Next]_vars
    PROVE  Written'
<1>0. Ran'
  BY RanNext DEF Written
<1>1. CASE UNCHANGED vars
  BY <1>0, <1>1 DEF vars, Written, OnDisk
<1>2. CASE FinalStep
  BY <1>0, <1>2, FinalFrame DEF Written, OnDisk
<1>3. CASE StartRun \/ Crash
  <2>1. \A s \in Sources : Begun(src[s])'
    BY <1>3, TypedForget DEF StartRun, Crash
  <2> QED BY <1>0, <2>1, Lengths DEF Begun, Written, OnDisk
<1>4. ASSUME NEW s \in Sources, SourceStep(s) \/ Fail(s) PROVE Written'
  <2>1. ASSUME NEW t \in Sources, t # s PROVE OnDisk(t)'
    <3>1. src'[t] = src[t] /\ ckpt'[t] = ckpt[t] /\ disk'[t] = disk[t] /\ run'.att = run.att
      BY <1>4, <2>1, SourceFrame, SourceAttempt DEF Typed
    <3> QED BY <3>1 DEF Written, OnDisk
  <2> QED BY <1>0, <1>4, <2>1, OnDiskOwn DEF Written
<1> QED BY <1>1, <1>2, <1>3, <1>4 DEF Next, FinalStep

LEMMA WrittenInit == Init => Written
<1> SUFFICES ASSUME Init PROVE Written
  OBVIOUS
<1>1. run.phase = "idle" /\ run.comp = "none"
  BY DEF Init, IdleRun
<1>2. ASSUME NEW s \in Sources PROVE OnDisk(s)
  <2>1. src[s].completed = <<>> /\ src[s].status = "running"
    BY DEF Init, NoSource
  <2> QED BY <2>1, OnDiskEarly
<1> QED BY <1>1, <1>2 DEF Written, Ran

\* What is on disk of a source whose Bronze is complete.
LEMMA BronzeOnDisk ==
    ASSUME Typed, NEW s \in Sources, Fetched(s), src[s].completed # <<>>
    PROVE  /\ \A c \in DOMAIN disk[s].bronze : disk[s].bronze[c].params = Params(c, run.ver)
           /\ src[s].resumed # {} <=> \E c \in DOMAIN disk[s].bronze : disk[s].bronze[c].att # run.att
<1>1. Past(s) /\ Persisted(s)
  BY DEF Past, Persisted
<1>2. disk[s].bronze = src[s].staged /\ Len(src[s].staged) = NCalls(s) /\ src[s].resumed \subseteq 1 .. NCalls(s)
  BY <1>1 DEF Fetched
<1>3. DOMAIN src[s].staged = 1 .. NCalls(s)
  <2>1. src[s].staged \in Seq(RecSet)
    BY DEF Typed, Types, SourceSet
  <2> QED BY <1>2, <2>1, LenProperties
<1>4. \A i \in 1 .. NCalls(s) : /\ src[s].staged[i].params = Params(i, run.ver)
                                /\ src[s].staged[i].att # run.att <=> i \in src[s].resumed
  BY <1>1, <1>2 DEF Fetched, Staged
<1> QED BY <1>2, <1>3, <1>4

LEMMA ManifestFrom ==
    ASSUME Typed, Reported, FetchedAll, Written
    PROVE  ManifestTrue
<1> SUFFICES ASSUME Finished PROVE
        /\ \A s \in Sources :
             /\ "bronze" \in Range(manifest.stages[s]) =>
                   \A c \in DOMAIN disk[s].bronze :
                      disk[s].bronze[c].params = Params(c, run.ver)
             /\ "silver" \in Range(manifest.stages[s]) => disk[s].silver = run.att
             /\ "gold" \in Range(manifest.stages[s]) => disk[s].gold = run.att
             /\ ~disk[s].staging
        /\ \A s \in manifest.ok :
             (s \in manifest.resumed) <=> \E c \in DOMAIN disk[s].bronze :
                                             disk[s].bronze[c].att # run.att
        /\ manifest.status = "ok" =>
             /\ \A s \in Sources : disk[s].export = run.att /\ ckpt[s] = NoCkpt
             /\ Joined # {} => composed.att = run.att /\ composed.unmasked = {}
  BY DEF ManifestTrue
<1>1. /\ run.phase = "done" /\ manifest.status = run.status /\ manifest.ok = OkSources
      /\ manifest.resumed = {s \in OkSources : Resumed(s)}
      /\ \A s \in Sources : manifest.stages[s] = src[s].completed
  BY DEF Finished, Reported
<1>2. \A s \in Sources : OnDisk(s) /\ Fetched(s) /\ src[s].status # "running" /\ src[s].completed \in Progress
  BY <1>1 DEF Written, FetchedAll, Typed, Types, Numbered, AllEnded, SourceSet
<1>3. ASSUME NEW s \in Sources
      PROVE  /\ "bronze" \in Range(src[s].completed) => src[s].completed # <<>>
             /\ "silver" \in Range(src[s].completed) => src[s].completed \in {<<"bronze", "silver">>, Whole}
             /\ "gold" \in Range(src[s].completed) => src[s].completed = Whole
  BY <1>2, Ranges DEF Progress, Whole
<1>4. ASSUME NEW s \in Sources
      PROVE  /\ "bronze" \in Range(manifest.stages[s]) =>
                   \A c \in DOMAIN disk[s].bronze : disk[s].bronze[c].params = Params(c, run.ver)
             /\ "silver" \in Range(manifest.stages[s]) => disk[s].silver = run.att
             /\ "gold" \in Range(manifest.stages[s]) => disk[s].gold = run.att
             /\ ~disk[s].staging
  <2>1. "bronze" \in Range(src[s].completed) =>
            \A c \in DOMAIN disk[s].bronze : disk[s].bronze[c].params = Params(c, run.ver)
    BY <1>2, <1>3, BronzeOnDisk
  <2>2. /\ "silver" \in Range(src[s].completed) => disk[s].silver = run.att
        /\ "gold" \in Range(src[s].completed) => disk[s].gold = run.att
        /\ ~disk[s].staging
    BY <1>2, <1>3 DEF OnDisk
  <2> QED BY <1>1, <2>1, <2>2
<1>5. ASSUME NEW s \in Sources, src[s].status = "ok"
      PROVE  src[s].completed = Whole /\ src[s].completed # <<>>
  BY <1>5, Lengths DEF Typed, Placed
<1>6. ASSUME NEW s \in manifest.ok
      PROVE  (s \in manifest.resumed) <=> \E c \in DOMAIN disk[s].bronze : disk[s].bronze[c].att # run.att
  <2>1. s \in Sources /\ src[s].status = "ok"
    BY <1>1 DEF OkSources
  <2>2. src[s].resumed # {} <=> \E c \in DOMAIN disk[s].bronze : disk[s].bronze[c].att # run.att
    BY <1>2, <1>5, <2>1, BronzeOnDisk
  <2>3. s \in manifest.resumed <=> src[s].resumed # {}
    BY <1>1, <2>1 DEF OkSources, Resumed
  <2> QED BY <2>2, <2>3
<1>7. ASSUME manifest.status = "ok"
      PROVE  /\ \A s \in Sources : disk[s].export = run.att /\ ckpt[s] = NoCkpt
             /\ Joined # {} => composed.att = run.att /\ composed.unmasked = {}
  <2>1. (\A s \in Sources : src[s].status = "ok") /\ (Joined # {} => run.comp = "ok")
    BY <1>1, <1>7 DEF Written, Ran
  <2>2. \A s \in Sources : disk[s].export = run.att /\ ckpt[s] = NoCkpt /\ (src[s].declared <=> s \in Declared)
    BY <1>2, <1>5, <2>1 DEF OnDisk
  <2>3. UnmaskedSides = {}
    BY <2>2, PipelineAssumption DEF UnmaskedSides
  <2> QED BY <2>1, <2>2, <2>3 DEF Written, Ran
<1> QED BY <1>4, <1>6, <1>7

\* The manifest tells the truth about the disk, after any number of attempts,
\* crashes and resumed fetches: what it lists as completed is there from this
\* attempt, with this attempt's parameters; resumed is said of exactly the
\* sources whose records come from two fetches; a run called ok has every
\* export, no checkpoint, and every declared column of what it composed masked
\* (_run_source_pipeline, run_build, _mask_composition_inputs).
THEOREM ManifestsTellTruth == Spec => []ManifestTrue
<1>1. Init => Typed /\ Reported /\ FetchedAll /\ Written
  BY TypedInit, TimelineBegins, FetchedInit, WrittenInit
<1>2. Typed /\ Reported /\ FetchedAll /\ Written /\ [Next]_vars => (Typed /\ Reported /\ FetchedAll /\ Written)'
  BY TypedNext, ReportedNext, FetchedNext, WrittenNext
<1>3. Typed /\ Reported /\ FetchedAll /\ Written => ManifestTrue
  BY ManifestFrom
<1> QED BY <1>1, <1>2, <1>3, PTL DEF Spec
=============================================================================
