-------------------------- MODULE EdslTransactions --------------------------
(***************************************************************************)
(* MettaDB of packages/edsl/src/db.ts: transaction, dryRun, undo, onChange *)
(* over the space of hyperon/src/base.ts (the KB and the world of the      *)
(* evaluator read as one), a named space and one log of changes.  Bodies   *)
(* nest; a step is one call of the program, of the innermost body or of a  *)
(* watch callback, or one step of an evaluation or of a restore.  A        *)
(* listener of onChange hears of a write or throws and calls nothing back. *)
(***************************************************************************)
EXTENDS Integers, Sequences, SequencesExt, SequenceFunctions

CONSTANTS
    Atoms,
    Listeners,
    MaxBegun,       \* bound of the model: bodies, undos and subscriptions; nested MeTTa transactions
    MaxWrites       \* bound of the model: writes

ASSUME TransactionsAssumption == MaxBegun \in Nat /\ MaxWrites \in Nat

VARIABLES
    kb,             \* the atoms the program stored
    world,          \* the atoms evaluations added, and those of the KB they retracted
    shelf,          \* a named space of a backend, which nothing rolls back
    changeLog, recordDepth, changeListeners, watching,
    eval,           \* << >>, or the worlds of an evaluation: the current one last, before
                    \* it what the open MeTTa transactions go back to
    stack,          \* open bodies and restores, the innermost last
    reports,        \* << >> or the last report
    subscribed,     \* history: listeners that asked and did not stop
    stoppedLate,    \* history: listeners that stopped while a restore held them
    missed,         \* history: listeners that did not hear of a write that was made
    emptied,        \* history: the log was emptied under open bodies
    stirred,        \* history: &self was written, so that rows a watcher saw may change
    begun, written

space == <<kb, world, shelf>>
log == <<changeLog, recordDepth, changeListeners, watching>>
history == <<subscribed, stoppedLate, missed, emptied, stirred>>
counts == <<begun, written>>
vars == <<space, log, eval, stack, reports, history, counts>>

NoEffects == [extra |-> << >>, removed |-> {}]

Init ==
    /\ kb = << >> /\ world = NoEffects /\ shelf = << >>
    /\ changeLog = << >> /\ recordDepth = 0 /\ changeListeners = {} /\ watching = FALSE
    /\ eval = << >> /\ stack = << >> /\ reports = << >>
    /\ subscribed = {} /\ stoppedLate = {} /\ missed = {} /\ emptied = FALSE
    /\ stirred = FALSE
    /\ begun = 0 /\ written = 0

Level == Len(stack)
Top == stack[Level]
Restoring == stack # << >> /\ Top.phase # "body"
InBody(kind) == eval = << >> /\ stack # << >> /\ Top.kind = kind /\ Top.phase = "body"

(* The program, the innermost body, or a callback told of the restore      *)
(* because the rows it watches are not those it last saw.                  *)
UserCode == eval = << >> /\ (Restoring => stirred /\ Top.phase \in {"cleared", "refilled"})

Writes(where) ==
    /\ written < MaxWrites /\ written' = written + 1 /\ UNCHANGED begun
    /\ stirred' = (stirred \/ where = "self")
Begins == begun < MaxBegun /\ begun' = begun + 1 /\ UNCHANGED written

(* selfAtoms: what &self holds.                                            *)
Visible ==
    (IF world.removed = {} THEN kb ELSE Filtered(kb, Atoms \ world.removed)) \o world.extra

-----------------------------------------------------------------------------
(* syncSpaceWatch.                                                         *)
\* Mutant: the hook is installed for recording only.
SyncDepth(depth, listeners) == watching' = (depth > 0)
Sync(depth, listeners) == watching' = (depth > 0 \/ listeners # {})

(* The hook: a change is logged, then the listeners are told one by one    *)
(* until one throws.                                                       *)
Change(op, where, a) == [op |-> op, space |-> where, atom |-> a]
Logged(changes) == IF watching /\ recordDepth > 0 THEN changeLog \o changes ELSE changeLog
Listening == IF watching THEN changeListeners ELSE {}

(* What the innermost frame keeps of a call: the changes of a body are its *)
(* own, and a restore is disturbed.                                        *)
Acted(changes) ==
    IF stack = << >> THEN stack
    ELSE IF Restoring THEN [stack EXCEPT ![Level].quiet = FALSE]
    ELSE [stack EXCEPT ![Level].own = @ \o changes]

Hook(changes) == changeLog' = Logged(changes) /\ stack' = Acted(changes)
Heard(told) == missed' = missed \cup (subscribed \ told)

\* A write made before the hook: whom it reaches when a listener may throw.
Hearing == \E told \in SUBSET Listening : (told = {} => Listening = {}) /\ Heard(told)

(* addToKb.                                                                *)
HostAdd(a) ==
    /\ UserCode /\ Writes("self")
    /\ kb' = Append(kb, a) /\ Hook(<<Change("add", "self", a)>>) /\ Hearing
    /\ UNCHANGED <<world, shelf, recordDepth, changeListeners, watching, eval, reports,
                   subscribed, stoppedLate, emptied>>

(* removeFromKb, removeRuntimeAtom.                                        *)
HostDelete(a) ==
    /\ UserCode /\ Writes("self")
    /\ \/ Contains(kb, a) /\ kb' = RemoveFirst(kb, a) /\ UNCHANGED world
       \/ /\ ~Contains(kb, a) /\ Contains(world.extra, a)
          /\ world' = [world EXCEPT !.extra = RemoveFirst(@, a)] /\ UNCHANGED kb
    /\ Hook(<<Change("remove", "self", a)>>) /\ Hearing
    /\ UNCHANGED <<shelf, recordDepth, changeListeners, watching, eval, reports,
                   subscribed, stoppedLate, emptied>>

(* clearSelfSpace: what was retracted is in the KB no more.                *)
\* Mutant: the retractions stay.
ClearRetracting(w) == [w EXCEPT !.extra = << >>]
ClearSelfSpace(w) == NoEffects

(* clearKb: the hook comes first, so a listener that throws at the n-th    *)
(* atom leaves the space as it is.                                         *)
Removals(n) == [i \in 1..n |-> Change("remove", "self", Visible[i])]

HostClear ==
    /\ UserCode /\ Writes("self")
    /\ \/ /\ Hook(Removals(Len(Visible))) /\ Heard(Listening)
          /\ kb' = << >> /\ world' = ClearSelfSpace(world)
       \/ \E n \in 1..Len(Visible) :
            Listening # {} /\ Hook(Removals(n)) /\ UNCHANGED <<missed, kb, world>>
    /\ UNCHANGED <<shelf, recordDepth, changeListeners, watching, eval, reports,
                   subscribed, stoppedLate, emptied>>

-----------------------------------------------------------------------------
(* An evaluation works on a world of its own, which the space takes over   *)
(* when it ends.                                                           *)
BeginEval ==
    /\ UserCode /\ eval' = <<world>> /\ stack' = Acted(<< >>)
    /\ UNCHANGED <<space, log, reports, history, counts>>

Current == eval[Len(eval)]

EraseSpace(w, a) ==
    IF Contains(w.extra, a) THEN [w EXCEPT !.extra = RemoveFirst(@, a)]
    ELSE IF Contains(kb, a) THEN [w EXCEPT !.removed = @ \cup {a}]
    ELSE w

Written(op, w, a) ==
    IF op = "add" THEN [w EXCEPT !.extra = Append(@, a)] ELSE EraseSpace(w, a)

(* appendSpace, eraseSpace: the hook comes first; a listener that throws   *)
(* ends the evaluation and its world is lost.                              *)
EvalWrite(op, where, a) ==
    /\ eval # << >> /\ Writes(where)
    /\ Hook(<<Change(op, where, a)>>)
    /\ \/ /\ where = "self" /\ Heard(Listening)
          /\ eval' = [eval EXCEPT ![Len(eval)] = Written(op, @, a)] /\ UNCHANGED shelf
       \/ /\ where = "shelf" /\ Heard(Listening)
          /\ shelf' = IF op = "add" THEN Append(shelf, a) ELSE RemoveFirst(shelf, a)
          /\ UNCHANGED eval
       \/ Listening # {} /\ eval' = << >> /\ UNCHANGED <<missed, shelf>>
    /\ UNCHANGED <<kb, world, recordDepth, changeListeners, watching, reports,
                   subscribed, stoppedLate, emptied>>

(* (transaction ...) of the language: it keeps its world or restores the   *)
(* one it began with, and the log is not told.                             *)
OpenForm ==
    /\ eval # << >> /\ Len(eval) <= MaxBegun /\ eval' = Append(eval, Current)
    /\ UNCHANGED <<space, log, stack, reports, history, counts>>

CloseForm ==
    /\ Len(eval) > 1
    /\ \/ eval' = Append(SubSeq(eval, 1, Len(eval) - 2), Current)
       \/ eval' = Front(eval)
    /\ UNCHANGED <<space, log, stack, reports, history, counts>>

(* An evaluation that throws, as one that reaches an async operation does, *)
(* loses its world.                                                        *)
EndEval ==
    /\ eval # << >> /\ eval' = << >>
    /\ (Len(eval) = 1 /\ world' = eval[1]) \/ UNCHANGED world
    /\ UNCHANGED <<kb, shelf, log, stack, reports, history, counts>>

-----------------------------------------------------------------------------
Frame(kind, phase, before) ==
    [kind |-> kind, phase |-> phase, mark |-> Len(changeLog), own |-> << >>, depth |-> recordDepth,
     before |-> before, shelf |-> shelf, listeners |-> changeListeners, quiet |-> TRUE]

Begin(kind) ==
    /\ UserCode /\ Begins
    /\ stack' = Append(Acted(<< >>), Frame(kind, "body", Visible))
    /\ recordDepth' = recordDepth + 1 /\ Sync(recordDepth + 1, changeListeners)
    /\ UNCHANGED <<space, changeLog, changeListeners, eval, reports, history>>

(* changeLog.length = n, which also lengthens.                             *)
Hole == Change("none", "none", "none")
Cut(l, n) == [i \in 1..n |-> IF i <= Len(l) THEN l[i] ELSE Hole]

(* forgetLogIfIdle.                                                        *)
Kept(depth, l) == IF depth = 0 THEN << >> ELSE l

\* after and shelfAfter: at the end of the body, the getter read at once.
Report == <<[changes |-> SubSeq(changeLog, Top.mark + 1, Len(changeLog)), own |-> Top.own,
             emptied |-> emptied, before |-> Top.before, after |-> Visible,
             shelf |-> Top.shelf, shelfAfter |-> shelf]>>

(* The innermost frame ends and its changes become those of the frame it   *)
(* is nested in.                                                           *)
Below == Front(stack)
Closed ==
    IF Below = << >> THEN << >> ELSE [Below EXCEPT ![Len(Below)].own = @ \o Top.own]

\* The log is emptied, or not, when a frame that began at Top.mark ends.
EmptiedBy(forgotten) ==
    emptied' = (Below # << >> /\ (emptied \/ (forgotten /\ Top.mark > 0)))

Return ==
    /\ InBody("transaction")
    /\ recordDepth' = recordDepth - 1 /\ Sync(recordDepth - 1, changeListeners)
    /\ reports' = Report
    /\ changeLog' = Kept(recordDepth - 1, changeLog)
    /\ stack' = IF recordDepth = 1 THEN Below ELSE Closed
    /\ EmptiedBy(recordDepth = 1)
    /\ UNCHANGED <<space, changeListeners, eval, subscribed, stoppedLate, missed, stirred, counts>>

(* withoutRecording begins; its frame takes the place of the body's and    *)
(* has what is put back behind it.                                         *)
Silence == recordDepth' = 0 /\ changeListeners' = {} /\ Sync(0, {})
Restore(own) ==
    /\ stack' = [stack EXCEPT ![Level] = [@ EXCEPT !.phase = "clear", !.own = own,
                                                   !.listeners = changeListeners]]
    /\ Silence

(* The end of a dry run's body, whether it returned or threw.              *)
EndDryRun ==
    /\ InBody("dryRun")
    /\ reports' = Report
    /\ Restore(Top.own)
    /\ UNCHANGED <<space, changeLog, eval, history, counts>>

\* Mutant: the changes of a transaction that threw stay in the log.
CutNothing(l, n) == l
CutAtThrow(l, n) == Cut(l, n)

Throw ==
    /\ InBody("transaction")
    /\ changeLog' = CutAtThrow(changeLog, Top.mark)
    /\ Restore(<< >>)
    /\ UNCHANGED <<space, eval, reports, history, counts>>

Undo ==
    /\ UserCode /\ Begins /\ reports # << >>
    /\ stack' = Append(Acted(<< >>), Frame("undo", "clear", reports[1].before))
    /\ Silence
    /\ UNCHANGED <<space, changeLog, eval, reports, history>>

-----------------------------------------------------------------------------
(* restore: space.clear, then space.add of what is put back; each tells    *)
(* the watchers, whose callbacks are user code.                            *)
ClearSpace ==
    /\ eval = << >> /\ Restoring /\ Top.phase = "clear"
    /\ kb' = << >> /\ world' = ClearSelfSpace(world)
    /\ stack' = [stack EXCEPT ![Level].phase = "cleared"]
    /\ UNCHANGED <<shelf, log, eval, reports, history, counts>>

Refill ==
    /\ eval = << >> /\ Restoring /\ Top.phase = "cleared"
    /\ kb' = kb \o Top.before
    /\ stack' = [stack EXCEPT ![Level].phase = "refilled"]
    /\ UNCHANGED <<world, shelf, log, eval, reports, history, counts>>

\* Mutant: the listeners told before are not put back.
ListenersDropped == changeListeners
ListenersBack == changeListeners \cup Top.listeners

(* The finally of withoutRecording.                                        *)
RecordAgain ==
    /\ recordDepth' = Top.depth /\ changeListeners' = ListenersBack
    /\ Sync(Top.depth, ListenersBack)

EndRestore ==
    /\ eval = << >> /\ Restoring /\ Top.phase = "refilled"
    /\ RecordAgain
    /\ IF Top.kind = "dryRun"
       THEN /\ changeLog' = Kept(Top.depth, Cut(changeLog, Top.mark))
            /\ stack' = Below /\ EmptiedBy(Top.depth = 0)
       ELSE stack' = Closed /\ EmptiedBy(FALSE) /\ UNCHANGED changeLog
    /\ UNCHANGED <<space, eval, reports, subscribed, stoppedLate, missed, stirred, counts>>

(* What a callback throws ends the restore where it is.                    *)
Abandon ==
    /\ RecordAgain
    /\ stack' = Closed /\ EmptiedBy(FALSE)
    /\ UNCHANGED <<world, shelf, changeLog, eval, reports, subscribed, stoppedLate, missed, stirred, counts>>

ThrowInCallback == Restoring /\ UserCode /\ Abandon /\ UNCHANGED kb

\* A listener that a callback subscribed throws when it is told of the n-th atom put back.
ThrowInRefill ==
    /\ eval = << >> /\ Restoring /\ Top.phase = "cleared" /\ Listening # {}
    /\ \E n \in 1..Len(Top.before) : kb' = kb \o SubSeq(Top.before, 1, n)
    /\ Abandon

-----------------------------------------------------------------------------
(* What the restores under way will put back.                              *)
Saved(frames) ==
    {l \in Listeners : \E i \in DOMAIN frames : frames[i].phase # "body" /\ l \in frames[i].listeners}

OnChange(l) ==
    /\ UserCode /\ Begins /\ l \notin subscribed
    /\ subscribed' = subscribed \cup {l} /\ stoppedLate' = stoppedLate \ {l}
    /\ changeListeners' = changeListeners \cup {l} /\ Sync(recordDepth, changeListeners \cup {l})
    /\ UNCHANGED <<space, changeLog, recordDepth, eval, stack, reports, missed, emptied, stirred>>

Stop(l) ==
    /\ UserCode /\ l \in subscribed \cup stoppedLate
    /\ subscribed' = subscribed \ {l}
    /\ stoppedLate' = IF l \in Saved(stack) THEN stoppedLate \cup {l} ELSE stoppedLate \ {l}
    /\ changeListeners' = changeListeners \ {l} /\ Sync(recordDepth, changeListeners \ {l})
    /\ UNCHANGED <<space, changeLog, recordDepth, eval, stack, reports, missed, emptied, stirred, counts>>

Next ==
    \/ \E a \in Atoms : HostAdd(a) \/ HostDelete(a)
    \/ \E op \in {"add", "remove"}, where \in {"self", "shelf"}, a \in Atoms : EvalWrite(op, where, a)
    \/ HostClear \/ BeginEval \/ OpenForm \/ CloseForm \/ EndEval
    \/ \E kind \in {"transaction", "dryRun"} : Begin(kind)
    \/ Return \/ EndDryRun \/ Throw \/ Undo
    \/ ClearSpace \/ Refill \/ EndRestore \/ ThrowInCallback \/ ThrowInRefill
    \/ \E l \in Listeners : OnChange(l) \/ Stop(l)

Spec == Init /\ [][Next]_vars

-----------------------------------------------------------------------------
Changes == [op : {"add", "remove"}, space : {"self", "shelf"}, atom : Atoms]
Worlds == [extra : Seq(Atoms), removed : SUBSET Atoms]
Frames ==
    [kind : {"transaction", "dryRun", "undo"}, phase : {"body", "clear", "cleared", "refilled"},
     mark : Nat, own : Seq(Changes), depth : Nat, before : Seq(Atoms), shelf : Seq(Atoms),
     listeners : SUBSET Listeners, quiet : BOOLEAN]

TypeOK ==
    /\ kb \in Seq(Atoms) /\ world \in Worlds /\ shelf \in Seq(Atoms)
    /\ changeLog \in Seq(Changes \cup {Hole}) /\ recordDepth \in Nat
    /\ changeListeners \subseteq Listeners /\ watching \in BOOLEAN
    /\ eval \in Seq(Worlds) /\ stack \in Seq(Frames)
    /\ subscribed \subseteq Listeners /\ stoppedLate \subseteq Listeners /\ emptied \in BOOLEAN

(* The depth of the bodies up to the i-th frame: a restore counts anew,    *)
(* and will put back the depth its body began at.                          *)
DepthAt(frames, i) == IF i = 0 \/ frames[i].phase # "body" THEN 0 ELSE frames[i].depth + 1
DepthsNested(frames, depth) ==
    /\ depth = DepthAt(frames, Len(frames))
    /\ \A i \in 1..Len(frames) : frames[i].depth = DepthAt(frames, i - 1)

(* The log is the changes of the open frames one after another, each from  *)
(* its mark to that of the next.                                           *)
LogOfFrames(frames, l) ==
    \A i \in 1..Len(frames) :
        /\ frames[i].mark + Len(frames[i].own) = IF i = Len(frames) THEN Len(l) ELSE frames[i + 1].mark
        /\ \A n \in 1..Len(frames[i].own) : l[frames[i].mark + n] = frames[i].own[n]

(* Recording is consistent at every point of every nesting, whatever watch *)
(* callbacks do while the space is put back: the hook is installed exactly *)
(* while somebody records or listens, the depth counts the bodies since    *)
(* the innermost restore, and the log holds what the open bodies did and   *)
(* nothing of those that threw or were dry, unless a body in a callback    *)
(* emptied it.                                                             *)
RecordingConsistent ==
    /\ TypeOK
    /\ watching = (recordDepth > 0 \/ changeListeners # {})
    /\ DepthsNested(stack, recordDepth)
    /\ ~emptied => LogOfFrames(stack, changeLog)

(* A report lists what the hook reported of its body, and of the bodies    *)
(* nested in it that were kept, in order and nothing else, whatever was    *)
(* rolled back, dry or undone in between.                                  *)
ReportExact == reports # << >> /\ ~reports[1].emptied => reports[1].changes = reports[1].own

(* No listener is lost and none appears from nowhere: one that asked is    *)
(* told or will be told again by a restore under way, and one that is or   *)
(* will be told asked and did not stop, or stopped while a restore held    *)
(* it.                                                                     *)
ListenersKept ==
    /\ subscribed \subseteq changeListeners \cup Saved(stack)
    /\ changeListeners \cup Saved(stack) \subseteq subscribed \cup stoppedLate

(* A rollback, a dry run or an undo puts back what &self held, in order:   *)
(* neither what evaluations added nor what they retracted shows through,   *)
(* unless a callback wrote in between.                                     *)
RestoredExactly == Restoring /\ Top.phase = "refilled" /\ Top.quiet => Visible = Top.before

-----------------------------------------------------------------------------
(* What the code says of itself and does not keep.                         *)

(* Every listener hears every write that was made while it is subscribed   *)
(* (db.ts, onChange: "Report every write to every space, for as long as    *)
(* the callback is installed").  One that throws keeps it from the next.   *)
WritesHeard == missed = {}

(* Whoever stopped is told no more (onChange: "call the returned function  *)
(* to stop").  A restore puts back the listeners it saved.                 *)
StopIsFinal == changeListeners \subseteq subscribed

(* A change of a report done again, to the atoms of the shelf.             *)
Redone(atoms, change) ==
    IF change.space # "shelf" THEN atoms
    ELSE IF change.op = "add" THEN Append(atoms, change.atom) ELSE RemoveFirst(atoms, change.atom)

(* A report's changes explain the shelf too (transaction.ts: "Every write  *)
(* the body made, in order, across every space it touched").  A nested     *)
(* body that throws takes its writes to the shelf out of the log only.     *)
ShelfExplained ==
    reports # << >> =>
        FoldLeft(Redone, reports[1].shelf, reports[1].changes) = reports[1].shelfAfter

(* An atom a report adds to &self and does not remove is there afterwards  *)
(* (db.ts, transaction: "what was held before, what is held now, and every *)
(* write between").  A MeTTa transaction that rolls back leaves its        *)
(* changes in the log.                                                     *)
AddedIsHeld ==
    reports # << >> =>
        \A a \in Atoms :
            LET at(op) == {i \in DOMAIN reports[1].changes : reports[1].changes[i] = Change(op, "self", a)}
            IN  at("add") # {} /\ at("remove") = {} => Contains(reports[1].after, a)

(* The log is not emptied before the report of an open body is built       *)
(* (db.ts, forgetLogIfIdle: "Dropping them any earlier would empty the log *)
(* before the report was built").  A body begun in a callback does so.     *)
ReportWhole == reports # << >> => reports[1].changes = reports[1].own
=============================================================================
