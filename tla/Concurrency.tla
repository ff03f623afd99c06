---------------------------- MODULE Concurrency ----------------------------
(***************************************************************************)
(* The concurrency primitives of the evaluator: par, race, with-mutex and  *)
(* transaction over copy-on-write worlds (packages/core/src/eval.ts).      *)
(*                                                                         *)
(* A task is an evaluation with a state of its own: the program, root, and *)
(* the branches it forks.  Tasks interleave at every effect, since an      *)
(* asynchronous operation may stand between any two.  What they share is   *)
(* the lock table, the loaded modules and the version counter of the       *)
(* environment; worlds are values.  Branches do not fork further.          *)
(***************************************************************************)
EXTENDS Worlds

CONSTANTS
    Branch,             \* branches the program may fork, taken in order
    Width,              \* branches of one par or race
    Names,              \* lock names
    Modules, Defs,      \* Modules -> set of the atoms of the module's closure
    Added, Removed,     \* atoms the program adds to spaces and removes
    HandleIn,           \* atoms that hold a state handle -> its id
    MaxEffects,         \* bound of the model on the effects of all tasks together
    MaxIds              \* bound of the model on the ids handed out

ASSUME ProgramAssumption ==
    /\ Branch \in Nat /\ Width \in 1..Branch
    /\ Defs \in [Modules -> SUBSET Atoms]
    /\ Added \subseteq Atoms /\ Removed \subseteq Atoms
    /\ DOMAIN HandleIn \subseteq Atoms /\ \A a \in DOMAIN HandleIn : HandleIn[a] \in Nat
    /\ MaxEffects \in Nat /\ MaxIds \in Nat

Root == 0
Tasks == 0..Branch

VARIABLES
    state,      \* task -> its St: counter and world
    control,    \* task -> where its evaluation is
    frames,     \* task -> with-mutex and transaction forms around it, innermost last
    fork,       \* the par or race root is suspended on
    aborted,    \* tasks whose AbortSignal fired
    mutexes,    \* env.mutexes: name -> the request its chain ends with
    open,       \* requests whose release() was not called yet
    requests,   \* how many requests there were
    loaded,     \* env.loadedModules of &self
    clock,      \* spaceContentVersionCounter
    effects,    \* history: effects so far
    handed      \* history: task -> ids new-state and new-space returned in its past

envVars == <<mutexes, open, requests, loaded>>
vars == <<state, control, frames, fork, aborted, envVars, clock, effects, handed>>

NoFork == [kind |-> "none", branches |-> << >>, winner |-> Root]
NoRequest == 0

-----------------------------------------------------------------------------

Top(t) == frames[t][Len(frames[t])]
Pushed(t, frame) == [frames EXCEPT ![t] = Append(@, frame)]
Popped(t) == [frames EXCEPT ![t] = SubSeq(@, 1, Len(@) - 1)]

IsBody(f) == f.kind = "mutex" /\ ~ f.waiting
Waiting(t) == frames[t] # << >> /\ Top(t).kind = "mutex" /\ Top(t).waiting

\* A body of with-mutex is evaluated without the signal of the task.
Shielded(t) == \E i \in DOMAIN frames[t] : frames[t][i].kind = "mutex"

Runs(t) ==
    /\ control[t] = "running" /\ ~ Waiting(t)
    /\ t \in aborted => Shielded(t)
    /\ t = Root => fork = NoFork

\* A task that may have one more effect.
Acts(t) ==
    /\ Runs(t)
    /\ effects < MaxEffects
    /\ effects' = effects + 1

Branches(f) == {f.branches[i] : i \in DOMAIN f.branches}

World(t) == state[t].world
Become(t, w) == state' = [state EXCEPT ![t].world = w]

Init ==
    /\ state = [t \in Tasks |-> [counter |-> 0, world |-> NewWorld]]
    /\ control = [t \in Tasks |-> IF t = Root THEN "running" ELSE "unused"]
    /\ frames = [t \in Tasks |-> << >>]
    /\ fork = NoFork
    /\ aborted = {}
    /\ mutexes = [n \in Names |-> NoRequest]
    /\ open = {} /\ requests = 0
    /\ loaded = {}
    /\ clock = 0
    /\ effects = 0
    /\ handed = [t \in Tasks |-> {}]

-----------------------------------------------------------------------------
(* Effects on the task's own world.                                        *)

\* nextSpaceContentVersion: one counter for every world.
Stamp == clock + 1

Spaces(t) == {Self} \cup DOMAIN World(t).spaces

\* A fresh id, from the counter of the task.
Allocate(t, w) ==
    /\ state[t].counter < MaxIds
    /\ state' = [state EXCEPT ![t] = [counter |-> @.counter + 1, world |-> w]]
    /\ handed' = [handed EXCEPT ![t] = @ \cup {state[t].counter}]

NewState(t) ==
    /\ Acts(t)
    /\ Allocate(t, SetCell(World(t), state[t].counter, 0))
    /\ UNCHANGED <<control, frames, fork, aborted, envVars, clock>>

\* (change-state! $s (+ 1 (get-state $s))): what is written depends on what was read.
ChangeState(t) ==
    /\ Acts(t)
    /\ \E id \in DOMAIN World(t).cells :
           Become(t, SetCell(World(t), id, World(t).cells[id] + 1))
    /\ UNCHANGED <<control, frames, fork, aborted, envVars, clock, handed>>

\* new-space, and fork-space of any space.
NewSpace(t) ==
    /\ Acts(t)
    /\ \E bag \in {EmptyBag} \cup {Visible(World(t), s) : s \in Spaces(t)} :
           Allocate(t, AddSpace(World(t), state[t].counter, bag, Stamp))
    /\ clock' = clock + 1
    /\ UNCHANGED <<control, frames, fork, aborted, envVars>>

AddAtom(t) ==
    /\ Acts(t)
    /\ \E s \in Spaces(t), a \in Added : Become(t, AppendSpace(World(t), s, {a}, Stamp))
    /\ clock' = clock + 1
    /\ UNCHANGED <<control, frames, fork, aborted, envVars, handed>>

RemoveAtom(t) ==
    /\ Acts(t)
    /\ \E s \in Spaces(t), a \in Removed : Become(t, EraseSpace(World(t), s, a, Stamp))
    /\ clock' = clock + 1
    /\ UNCHANGED <<control, frames, fork, aborted, envVars, handed>>

\* Mutant: a module is not marked as loaded.
Unmarked(m) == loaded

Marked(m) == loaded \cup {m}

\* import! into &self: what is loaded is known to every task, what it adds to one.
Import(t, m) ==
    /\ Acts(t)
    /\ loaded' = Marked(m)
    /\ IF m \in loaded
       THEN UNCHANGED <<state, clock>>
       ELSE Become(t, AppendSpace(World(t), Self, Defs[m], Stamp)) /\ clock' = clock + 1
    /\ UNCHANGED <<control, frames, fork, aborted, mutexes, open, requests, handed>>

-----------------------------------------------------------------------------
(* transaction.                                                            *)

BeginTransaction(t) ==
    /\ Acts(t)
    /\ frames' = Pushed(t, [kind |-> "transaction", before |-> state[t]])
    /\ UNCHANGED <<state, control, fork, aborted, envVars, clock, handed>>

\* Mutant: the counter is rolled back too.
KeptByRollback(t, before) == before

\* The counter is never taken back.
Kept(t, before) == [before EXCEPT !.counter = state[t].counter]

\* Committed if some result is no error; else the snapshot of the world is restored.
EndTransaction(t) ==
    /\ Runs(t)
    /\ frames[t] # << >> /\ Top(t).kind = "transaction"
    /\ frames' = Popped(t)
    /\ \/ Become(t, [World(t) EXCEPT !.version = Stamp]) /\ clock' = clock + 1
       \/ state' = [state EXCEPT ![t] = Kept(t, Top(t).before)] /\ UNCHANGED clock
    /\ UNCHANGED <<control, fork, aborted, envVars, effects, handed>>

-----------------------------------------------------------------------------
(* with-mutex.                                                             *)

\* The chain of the name grows by this request, which waits for the one before.
RequestMutex(t) ==
    /\ Acts(t)
    /\ \E n \in Names :
         /\ frames' = Pushed(t, [kind |-> "mutex", name |-> n, request |-> requests + 1,
                                 prior |-> mutexes[n], waiting |-> TRUE])
         /\ mutexes' = [mutexes EXCEPT ![n] = requests + 1]
    /\ requests' = requests + 1
    /\ open' = open \cup {requests + 1}
    /\ UNCHANGED <<state, control, fork, aborted, loaded, clock, handed>>

EnterMutex(t) ==
    /\ control[t] = "running" /\ Waiting(t)
    /\ Top(t).prior \notin open
    /\ frames' = [frames EXCEPT ![t][Len(frames[t])].waiting = FALSE]
    /\ UNCHANGED <<state, control, fork, aborted, envVars, clock, effects, handed>>

\* Mutant: the entry of the name is dropped whoever is behind in the chain.
DroppedUnseen(fs) ==
    [n \in Names |-> IF \E f \in fs : f.name = n THEN NoRequest ELSE mutexes[n]]

\* The lock table after the bodies fs are left: a name is dropped with its last request.
Dropped(fs) ==
    [n \in Names |-> IF \E f \in fs : f.request = mutexes[n] THEN NoRequest ELSE mutexes[n]]

\* The finally block of with-mutex, of every body that is left.
Release(fs) ==
    /\ open' = open \ {f.request : f \in fs}
    /\ mutexes' = Dropped(fs)
    /\ UNCHANGED <<requests, loaded>>

LeaveMutex(t) ==
    /\ Runs(t)
    /\ frames[t] # << >> /\ Top(t).kind = "mutex"
    /\ Release({Top(t)})
    /\ frames' = Popped(t)
    /\ UNCHANGED <<state, control, fork, aborted, clock, effects, handed>>

\* Mutant: no finally block, a body that throws keeps its lock.
BodiesOfNothing(t) == {}

Bodies(t) == {frames[t][i] : i \in {j \in DOMAIN frames[t] : frames[t][j].kind = "mutex"}}

\* An asynchronous operation is rejected: the task is gone, its bodies are unwound.
Throw(t) ==
    /\ Runs(t)
    /\ control' = [control EXCEPT ![t] = "threw"]
    /\ Release(Bodies(t))
    /\ frames' = [frames EXCEPT ![t] = << >>]
    /\ UNCHANGED <<state, fork, aborted, clock, effects, handed>>

-----------------------------------------------------------------------------
(* par and race.                                                           *)

Fork ==
    /\ Runs(Root)
    /\ \E kind \in {"par", "race"}, first \in 1..(Branch - Width + 1) :
         LET team == [i \in 1..Width |-> first + i - 1]
             new == {team[i] : i \in 1..Width}
         IN  /\ \A b \in 1..Branch : control[b] = "unused" <=> b >= first
             /\ fork' = [kind |-> kind, branches |-> team, winner |-> Root]
             /\ state' = [t \in Tasks |-> IF t \in new THEN state[Root] ELSE state[t]]
             /\ handed' = [t \in Tasks |-> IF t \in new THEN handed[Root] ELSE handed[t]]
             /\ control' = [t \in Tasks |-> IF t \in new THEN "running" ELSE control[t]]
    /\ UNCHANGED <<frames, aborted, envVars, clock, effects>>

\* A branch ends with results or with none; the first with results wins a race.
Finish(t) ==
    /\ t # Root /\ Runs(t) /\ frames[t] = << >>
    /\ \E end \in {"results", "empty"} :
         /\ control' = [control EXCEPT ![t] = end]
         /\ fork' = IF end = "results" /\ t \in Branches(fork)
                        /\ fork.kind = "race" /\ fork.winner = Root
                    THEN [fork EXCEPT !.winner = t] ELSE fork
    /\ UNCHANGED <<state, frames, aborted, envVars, clock, effects, handed>>

\* The signal is seen at the next await outside a with-mutex.
Cancel(t) ==
    /\ t \in aborted /\ control[t] = "running" /\ ~ Shielded(t)
    /\ control' = [control EXCEPT ![t] = "cancelled"]
    /\ frames' = [frames EXCEPT ![t] = << >>]
    /\ UNCHANGED <<state, fork, aborted, envVars, clock, effects, handed>>

HighestCounter(tasks) ==
    CHOOSE n \in {state[t].counter : t \in tasks} : \A t \in tasks : state[t].counter <= n

JoinPar ==
    /\ fork.kind = "par"
    /\ \A b \in Branches(fork) : control[b] \in {"results", "empty"}
    /\ LET worlds == [i \in DOMAIN fork.branches |-> World(fork.branches[i])]
       IN  state' = [state EXCEPT ![Root] =
                        [counter |-> HighestCounter(Branches(fork) \cup {Root}),
                         world |-> MergeWorlds(World(Root), worlds, Stamp)]]
    /\ handed' = [handed EXCEPT ![Root] = UNION {handed[b] : b \in Branches(fork)}]
    /\ clock' = clock + 1
    /\ fork' = NoFork
    /\ UNCHANGED <<control, frames, aborted, envVars, effects>>

\* Promise.all rejects with the first branch that throws; the others run on.
FailPar ==
    /\ fork.kind = "par"
    /\ \E b \in Branches(fork) : control[b] = "threw"
    /\ control' = [control EXCEPT ![Root] = "threw"]
    /\ fork' = NoFork
    /\ Release(Bodies(Root))
    /\ frames' = [frames EXCEPT ![Root] = << >>]
    /\ UNCHANGED <<state, aborted, clock, effects, handed>>

\* The winner's state becomes the program's, or nothing changes if no branch has results.
JoinRace ==
    /\ fork.kind = "race"
    /\ \/ fork.winner # Root
       \/ \A b \in Branches(fork) : control[b] \in {"empty", "threw"}
    /\ state' = [state EXCEPT ![Root] = state[fork.winner]]
    /\ handed' = [handed EXCEPT ![Root] = handed[fork.winner]]
    /\ aborted' = aborted \cup Branches(fork)
    /\ fork' = NoFork
    /\ UNCHANGED <<control, frames, envVars, clock, effects>>

-----------------------------------------------------------------------------

Effect(t) ==
    \/ NewState(t) \/ ChangeState(t) \/ NewSpace(t)
    \/ AddAtom(t) \/ RemoveAtom(t)
    \/ (\E m \in Modules : Import(t, m))
    \/ BeginTransaction(t) \/ RequestMutex(t)

Task(t) ==
    \/ Effect(t) \/ EndTransaction(t) \/ EnterMutex(t) \/ LeaveMutex(t)
    \/ Throw(t) \/ Finish(t) \/ Cancel(t)

Next == (\E t \in Tasks : Task(t)) \/ Fork \/ JoinPar \/ FailPar \/ JoinRace

Settle(t) ==
    EndTransaction(t) \/ EnterMutex(t) \/ LeaveMutex(t) \/ Finish(t) \/ Cancel(t)

\* The event loop resumes every task whose promise is settled, and every asynchronous
\* operation settles: a task comes to the end of each form it entered, and root goes on
\* when its branches did.
Fairness ==
    /\ \A t \in Tasks : WF_vars(Settle(t))
    /\ WF_vars(JoinPar \/ FailPar \/ JoinRace)

Spec == Init /\ [][Next]_vars /\ Fairness

-----------------------------------------------------------------------------
(* Properties.                                                             *)

Snapshots(t) ==
    {frames[t][i].before.world : i \in {j \in DOMAIN frames[t] : frames[t][j].kind = "transaction"}}

\* The worlds some evaluation may read from, now or after a rollback.
LiveWorlds == {World(t) : t \in Tasks} \cup UNION {Snapshots(t) : t \in Tasks}

Frame ==
    [kind : {"transaction"}, before : [counter : Nat, world : {World(t) : t \in Tasks} \cup LiveWorlds]]
        \cup [kind : {"mutex"}, name : Names, request : 1..requests, prior : 0..requests,
              waiting : BOOLEAN]

\* Type invariant: live worlds, the counters, control and frames of tasks, and the lock
\* table; no live world is newer than the version counter.
TypeOK ==
    /\ \A t \in Tasks : state[t].counter \in Nat
    /\ \A w \in LiveWorlds :
         /\ w.self \in [Atoms -> Nat] /\ w.removed \subseteq Static
         /\ \A id \in DOMAIN w.spaces : w.spaces[id] \in [Atoms -> Nat]
         /\ \A id \in DOMAIN w.cells : w.cells[id] \in Nat
         /\ w.version \in 0..clock
    /\ control \in [Tasks -> {"unused", "running", "results", "empty", "threw", "cancelled"}]
    /\ \A t \in Tasks : \A i \in DOMAIN frames[t] : frames[t][i] \in Frame
    /\ mutexes \in [Names -> 0..requests] /\ open \subseteq 1..requests
    /\ loaded \subseteq Modules /\ aborted \subseteq 1..Branch

\* with-mutex lets one body per name run, whatever becomes of the others: a body that
\* ends, throws, or runs on after its race was lost.
MutualExclusion ==
    \A s, t \in Tasks : \A i \in DOMAIN frames[s], j \in DOMAIN frames[t] :
        /\ IsBody(frames[s][i]) /\ IsBody(frames[t][j])
        /\ frames[s][i].name = frames[t][j].name
        => s = t /\ i = j

\* The lock table holds a name exactly while a body of that name runs or is waited for:
\* a dropped name never has a section behind it, and the table does not grow.
LocksInUse ==
    \A n \in Names :
        mutexes[n] # NoRequest <=>
            \E t \in Tasks : \E f \in Bodies(t) : f.name = n

\* The lock table and the bodies agree, through every interleaving of sections, throws
\* and lost races.
LocksExact == MutualExclusion /\ LocksInUse

\* Ids of cells and spaces are never handed out again in the same line of evaluation,
\* rolled-back transactions and finished forks included: a handle kept from a
\* transaction that failed cannot come to mean another cell.
HandlesNotReused ==
    \A t \in Tasks : \A id \in handed[t] : id < state[t].counter

\* Space reads are memoised under the content version, in one table for all tasks: two
\* worlds of one version, of any two tasks or snapshots, must hold the same spaces.
VersionIdentifiesContent ==
    \A v, w \in LiveWorlds :
        v.version = w.version =>
            v.self = w.self /\ v.removed = w.removed /\ v.spaces = w.spaces

\* A module's atoms come into a space once, also when several branches import it and
\* their worlds are merged.
ImportedOnce ==
    \A w \in LiveWorlds, m \in Modules : \A a \in Defs[m] \ Added : w.self[a] <= 1

Joined(i) == World(fork.branches[i])

\* How often a branch brought an atom into a bag more than it took it out.
Gain(bag(_), i, a) == bag(Joined(i))[a] - bag(World(Root))[a]

GainOfAll(bag(_), a) ==
    LET sum[i \in 0..Width] == IF i = 0 THEN 0 ELSE sum[i - 1] + Gain(bag, i, a)
    IN  sum[Width]

\* In conflict: an atom several branches took out.
TakenTwice(bag(_), a) ==
    \E i, j \in 1..Width : i < j /\ Gain(bag, i, a) < 0 /\ Gain(bag, j, a) < 0

\* par joins the effects of all branches, whatever their order: each bag of atoms ends
\* up with the sum of what the branches did, unless several took the same atom out, and
\* a cell one branch changed has the value that branch gave it.
ParJoinsEffects ==
    [][JoinPar =>
        /\ \A a \in Atoms :
             LET self(w) == w.self
             IN  TakenTwice(self, a) \/
                 World(Root)'.self[a] = World(Root).self[a] + GainOfAll(self, a)
        /\ \A id \in UNION {DOMAIN Joined(i).spaces : i \in 1..Width}, a \in Atoms :
             LET space(w) == SpaceOf(w.spaces, id)
             IN  TakenTwice(space, a) \/
                 World(Root)'.spaces[id][a] = space(World(Root))[a] + GainOfAll(space, a)
        /\ World(Root)'.removed = UNION {Joined(i).removed : i \in 1..Width}
        /\ \A id \in DOMAIN World(Root)'.cells :
             \E i \in 1..Width : id \in DOMAIN Joined(i).cells
                /\ \/ World(Root)'.cells[id] = Joined(i).cells[id] /\ id \in Changed(World(Root), Joined(i))
                   \/ \A j \in 1..Width : id \notin Changed(World(Root), Joined(j))
      ]_vars

\* A section waits behind another it sits in, or that root holds around the fork.
WaitsInside ==
    \E t \in Tasks :
        /\ Waiting(t)
        /\ \/ \E i \in 1..(Len(frames[t]) - 1) : frames[t][i].kind = "mutex"
           \/ t \in Branches(fork) /\ Shielded(Root)

\* Every section is entered in the end, behind bodies that throw, lose their race or
\* belong to a program that failed, unless a section comes to wait inside another.
SectionsServed ==
    \A t \in Tasks : Waiting(t) ~> (~ Waiting(t) \/ WaitsInside)

-----------------------------------------------------------------------------
(* What the documentation says, and the code does not do.                  *)

\* An import! the program evaluates, with no fork under way, leaves the definitions of
\* the module in its space, whatever became of an evaluation that imported it before.
ImportTakesEffect ==
    [][\A m \in Modules : Import(Root, m) =>
        \A a \in Defs[m] \ Removed : World(Root)'.self[a] > 0]_vars

\* A read resolves the state handle in an atom of the space to the value of the cell: two
\* worlds of one version must agree on it too.
VersionIdentifiesReads ==
    \A v, w \in LiveWorlds : v.version = w.version =>
        \A a \in DOMAIN HandleIn :
            v.self[a] > 0 /\ HandleIn[a] \in DOMAIN v.cells \cap DOMAIN w.cells =>
                v.cells[HandleIn[a]] = w.cells[HandleIn[a]]
=============================================================================
