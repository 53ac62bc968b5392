------------------------------ MODULE TaskList ------------------------------
(***************************************************************************)
(* The engine's list of tasks: reg_task and _getTask of ft80x_engine_it.c. *)
(* A task structure is identified with its id, which is unique in the      *)
(* repository.  The structures are locals of main(), and nobody sets their *)
(* next before they are registered: it holds NULL or any other word that   *)
(* was on the stack.  Following such a word the engine reads memory that   *)
(* is not a task; what it does then is not modelled, the list is lost.     *)
(***************************************************************************)
EXTENDS Naturals, FiniteSets

CONSTANTS Task,     \* the task structures, by id
          NULL,
          Garbage   \* a next that was never set and is not NULL

ASSUME TaskAssumption == /\ IsFiniteSet(Task)
                         /\ NULL \notin Task \cup {Garbage} /\ Garbage \notin Task

VARIABLES taskListHead,  \* m_taskListHead
          next,          \* the member next of each structure
          stray          \* was a pointer followed that nobody set?

taskList == <<taskListHead, next, stray>>

(* The structures in S are on main's stack. *)
ListInit(S) == /\ taskListHead = NULL
               /\ \E g \in SUBSET S :
                    next = [t \in Task |-> IF t \in g THEN Garbage ELSE NULL]
               /\ stray = FALSE

(* The pointers on the way from the head, the one that ends it included:   *)
(* the least set with the head and the next of each of its tasks.          *)
Pointers == {taskListHead} \cup {next[t] : t \in Task}

Closed(S) == taskListHead \in S /\ \A t \in S \cap Task : next[t] \in S

Way == {p \in Pointers : \A S \in SUBSET Pointers : Closed(S) => p \in S}

(* Faulty: the task goes behind the head, in front of nothing. *)
reg_taskAtHead(t) ==
  IF taskListHead = NULL
  THEN taskListHead' = t /\ UNCHANGED <<next, stray>>
  ELSE /\ next' = [next EXCEPT ![taskListHead] = t]
       /\ UNCHANGED <<taskListHead, stray>>

(* A second task with an id is refused. *)
reg_task(t) ==
  IF taskListHead = NULL
  THEN taskListHead' = t /\ UNCHANGED <<next, stray>>
  ELSE IF t \in Way
  THEN UNCHANGED taskList
  ELSE LET last == CHOOSE p \in Way \cap Task : next[p] \notin Task
       IN  /\ stray' = (next[last] # NULL)
           /\ next' = IF stray' THEN next ELSE [next EXCEPT ![last] = t]
           /\ UNCHANGED taskListHead

(* The task with an id, or what the search for it ends with. *)
getTask(id) == IF id \in Way THEN id ELSE CHOOSE p \in Way : p \notin Task
=============================================================================
