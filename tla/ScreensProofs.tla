--------------------------- MODULE ScreensProofs ---------------------------
(***************************************************************************)
(* Proofs about Screens for every length of the keyboard's string and all  *)
(* keys: ScreensTypeOK, TaskFound, TouchIsFresh, Shown and OneLit; and     *)
(* ListsFit, for the sizes the code has.                                   *)
(*                                                                         *)
(* The invariant has a part for the list of tasks, one for the touches,    *)
(* one for the string, one for the buttons and one for the rest; a step    *)
(* disturbs few of them.  The part for the list follows the registration:  *)
(* the tasks registered so far are linked in the order of the program, and *)
(* no other task points to one.                                            *)
(***************************************************************************)
EXTENDS Screens, SequenceTheorems, TLAPS

(* With this head and these links the first n tasks of P are the list. *)
Linked(head, link, P, n) ==
  /\ head = IF n = 0 THEN NULL ELSE P[1]
  /\ \A i \in 1..n-1 : link[P[i]] = P[i + 1]
  /\ \A t \in Task : link[t] \in Task => \E i \in 1..n-1 : t = P[i]

ListInv ==
  /\ taskListHead \in Task \cup {NULL}
  /\ next \in [Task -> Task \cup {NULL, Garbage}]
  /\ program \in DOMAIN Programs /\ booted \in 0..Len(Programs[program])
  /\ at \in {"boot", "flags", "task"} /\ stray \in BOOLEAN
  /\ ~stray => Linked(taskListHead, next, Programs[program], booted)
  /\ at = "boot" => active = NULL /\ state = "New"
  /\ at # "boot" => /\ ~stray /\ booted = Len(Programs[program])
                    /\ active \in Tasks(program)

TouchInv == /\ touch \in [DOMAIN mask -> BOOLEAN]
            /\ state \in {"New", "Painting", "Running"} /\ noted \in BOOLEAN
            /\ TouchIsFresh

TextInv ==
  /\ str_buff \in [0..StrSize-1 -> Key \cup {Blank, Cursor, NULL}]
  /\ typed \in Seq(Key \cup {Blank})
  /\ str_curr_pos = Len(typed) /\ Len(typed) <= StrSize - 2
  /\ \A i \in 1..Len(typed) : str_buff[i - 1] = typed[i]

StringInv ==
  /\ TextInv
  /\ active = "keys" /\ state # "New" => /\ str_buff[Len(typed)] = Cursor
                                         /\ str_buff[Len(typed) + 1] = NULL

ButtonInv ==
  /\ keys_pressed \in Key \cup {NULL}
  /\ backspace_bt_pressed \in BOOLEAN /\ space_bt_pressed \in BOOLEAN
  /\ ~(keys_pressed # NULL /\ backspace_bt_pressed)
  /\ ~(keys_pressed # NULL /\ space_bt_pressed)
  /\ ~(backspace_bt_pressed /\ space_bt_pressed)

OtherInv == /\ myData4 \in 0..128
            /\ points \in BOOLEAN /\ show_keyboard \in BOOLEAN

IInv == ListInv /\ TouchInv /\ StringInv /\ ButtonInv /\ OtherInv

-----------------------------------------------------------------------------
(* The three programs and their tasks, in the order of registration. *)
LEMMA ThreePrograms ==
  ASSUME NEW p \in DOMAIN Programs
  PROVE  \/ /\ p = "test"
            /\ Programs[p] = <<"menu", "sliders", "keys", "graph">>
            /\ Tasks(p) = {"menu", "sliders", "keys", "graph"}
         \/ /\ p = "terminal"
            /\ Programs[p] = <<"terminal">> /\ Tasks(p) = {"terminal"}
         \/ /\ p = "demo"
            /\ Programs[p] = <<"demoMenu", "demoGraph", "demoSettings">>
            /\ Tasks(p) = {"demoMenu", "demoGraph", "demoSettings"}
<1>1. p \in {"test", "terminal", "demo"}
  BY DEF Programs
<1>2. CASE p = "test"
  <2>1. Programs[p] = <<"menu", "sliders", "keys", "graph">>
    BY <1>2 DEF Programs
  <2>2. Tasks(p) = {"menu", "sliders", "keys", "graph"}
    BY <2>1 DEF Tasks, ToSet
  <2>3. QED
    BY <1>2, <2>1, <2>2
<1>3. CASE p = "terminal"
  <2>1. Programs[p] = <<"terminal">>
    BY <1>3 DEF Programs
  <2>2. Tasks(p) = {"terminal"}
    BY <2>1 DEF Tasks, ToSet
  <2>3. QED
    BY <1>3, <2>1, <2>2
<1>4. CASE p = "demo"
  <2>1. Programs[p] = <<"demoMenu", "demoGraph", "demoSettings">>
    BY <1>4 DEF Programs
  <2>2. Tasks(p) = {"demoMenu", "demoGraph", "demoSettings"}
    BY <2>1 DEF Tasks, ToSet
  <2>3. QED
    BY <1>4, <2>1, <2>2
<1>5. QED
  BY <1>1, <1>2, <1>3, <1>4

(* A program's tasks are different tasks, four at most. *)
Roster(P) == /\ Len(P) \in 1..4
             /\ \A i \in 1..Len(P) : P[i] \in Task
             /\ \A i, j \in 1..Len(P) : P[i] = P[j] => i = j

(* Every program is a roster. *)
LEMMA Rosters ==
  ASSUME NEW p \in DOMAIN Programs
  PROVE  /\ Roster(Programs[p])
         /\ Tasks(p) = {Programs[p][i] : i \in 1..Len(Programs[p])}
         /\ First[p] \in Tasks(p)
<1>1. {"menu", "sliders", "keys", "graph", "terminal", "demoMenu", "demoGraph",
       "demoSettings"} \subseteq Task
  BY ScreenAssumption
<1>2. CASE p = "test" /\ Programs[p] = <<"menu", "sliders", "keys", "graph">>
  BY <1>1, <1>2 DEF Roster, First, Tasks, ToSet
<1>3. CASE p = "terminal" /\ Programs[p] = <<"terminal">>
  BY <1>1, <1>3 DEF Roster, First, Tasks, ToSet
<1>4. CASE /\ p = "demo"
           /\ Programs[p] = <<"demoMenu", "demoGraph", "demoSettings">>
  BY <1>1, <1>4 DEF Roster, First, Tasks, ToSet
<1>5. QED
  BY <1>2, <1>3, <1>4, ThreePrograms

-----------------------------------------------------------------------------
(* The way is what the links say. *)
LEMMA WayIs ==
  ASSUME next \in [Task -> Task \cup {NULL, Garbage}],
         NEW P, Roster(P), NEW n \in 1..Len(P),
         Linked(taskListHead, next, P, n)
  PROVE  Way = {P[i] : i \in 1..n} \cup {next[P[n]]}
<1> DEFINE W == {P[i] : i \in 1..n} \cup {next[P[n]]}
<1>1. /\ Len(P) \in 1..4 /\ n \in 1..4
      /\ \A i \in 1..n : P[i] \in Task
      /\ taskListHead = P[1]
      /\ \A i \in 1..n-1 : next[P[i]] = P[i + 1]
  <2>1. Len(P) \in 1..4 /\ n \in 1..4 /\ n # 0
    BY DEF Roster
  <2>2. \A i \in 1..n : P[i] \in Task
    BY <2>1 DEF Roster
  <2>3. QED
    BY <2>1, <2>2 DEF Linked
<1>2. next[P[n]] \notin Task
  <2> SUFFICES ASSUME next[P[n]] \in Task PROVE FALSE
    OBVIOUS
  <2>1. PICK i \in 1..n-1 : P[n] = P[i]
    BY <1>1 DEF Linked
  <2>2. i = n
    BY <1>1, <2>1 DEF Roster
  <2>3. QED
    BY <1>1, <2>2
<1>3. W \subseteq Pointers
  <2>1. ASSUME NEW i \in 1..n PROVE P[i] \in Pointers
    <3>1. CASE i = 1
      BY <1>1, <3>1 DEF Pointers
    <3>2. CASE i # 1
      <4>1. i - 1 \in 1..n-1 /\ (i - 1) + 1 = i /\ i - 1 \in 1..n
        BY <1>1, <3>2
      <4>2. P[i] = next[P[i - 1]] /\ P[i - 1] \in Task
        BY <1>1, <4>1
      <4>3. QED
        BY <4>2 DEF Pointers
    <3>3. QED
      BY <3>1, <3>2
  <2>2. next[P[n]] \in Pointers
    BY <1>1 DEF Pointers
  <2>3. QED
    BY <2>1, <2>2
<1>4. Closed(W)
  <2>1. taskListHead \in W
    BY <1>1
  <2>2. ASSUME NEW t \in W \cap Task PROVE next[t] \in W
    <3>1. PICK i \in 1..n : t = P[i]
      BY <1>2, <2>2
    <3>2. CASE i = n
      BY <3>1, <3>2
    <3>3. CASE i # n
      <4>1. i \in 1..n-1 /\ i + 1 \in 1..n
        BY <1>1, <3>3
      <4>2. next[t] = P[i + 1]
        BY <1>1, <3>1, <4>1
      <4>3. QED
        BY <4>1, <4>2
    <3>4. QED
      BY <3>2, <3>3
  <2>3. QED
    BY <2>1, <2>2 DEF Closed
<1>5. ASSUME NEW S, Closed(S) PROVE W \subseteq S
  <2>1. P[1] \in S /\ \A t \in S \cap Task : next[t] \in S
    BY <1>1, <1>5 DEF Closed
  <2>2. n >= 2 => P[2] \in S
    BY <1>1, <2>1
  <2>3. n >= 3 => P[3] \in S
    BY <1>1, <2>1, <2>2
  <2>4. n >= 4 => P[4] \in S
    BY <1>1, <2>1, <2>3
  <2>5. \A i \in 1..n : P[i] \in S
    BY <1>1, <2>1, <2>2, <2>3, <2>4
  <2>6. QED
    BY <1>1, <2>1, <2>5
<1>6. QED
  <2>1. Way \subseteq W
    BY <1>3, <1>4 DEF Way
  <2>2. W \subseteq Way
    BY <1>3, <1>5 DEF Way
  <2>3. QED
    BY <2>1, <2>2

(* A registered task is found. *)
LEMMA Found ==
  ASSUME ListInv, ~stray, NEW i \in 1..booted
  PROVE  getTask(Programs[program][i]) = Programs[program][i]
<1> DEFINE P == Programs[program]
<1>1. Roster(P) /\ booted \in 1..Len(P)
  BY Rosters DEF ListInv, Roster
<1>2. /\ Linked(taskListHead, next, P, booted)
      /\ next \in [Task -> Task \cup {NULL, Garbage}]
  BY DEF ListInv
<1> HIDE DEF P
<1>3. P[i] \in Way
  BY <1>1, <1>2, WayIs
<1>4. QED
  BY <1>3 DEF getTask, P

-----------------------------------------------------------------------------
(* Nothing is registered, touched, typed or pressed at first. *)
LEMMA Initial == Init => IInv
<1> SUFFICES ASSUME Init PROVE IInv
  OBVIOUS
<1>1. ListInv
  <2>1. PICK g \in SUBSET Tasks(program) :
          next = [t \in Task |-> IF t \in g THEN Garbage ELSE NULL]
    BY DEF Init, ListInit
  <2>2. \A t \in Task : next[t] \in {NULL, Garbage} /\ next[t] \notin Task
    BY <2>1, TaskAssumption
  <2>3. /\ taskListHead = NULL /\ booted = 0 /\ ~stray
        /\ program \in DOMAIN Programs /\ at = "boot" /\ active = NULL
        /\ state = "New" /\ stray = FALSE
    BY DEF Init, ListInit
  <2>4. 0 \in 0..Len(Programs[program])
    BY <2>3, Rosters DEF Roster
  <2>5. Linked(taskListHead, next, Programs[program], 0)
    BY <2>2, <2>3 DEF Linked
  <2>6. next \in [Task -> Task \cup {NULL, Garbage}]
    BY <2>1
  <2>7. QED
    BY <2>3, <2>4, <2>5, <2>6 DEF ListInv
<1>2. TouchInv
  <2>1. touch \in [DOMAIN mask -> BOOLEAN]
    BY DEF Init
  <2>2. noted = FALSE /\ state = "New"
    BY DEF Init
  <2>3. QED
    BY <2>1, <2>2 DEF TouchInv, TouchIsFresh
<1>3. StringInv
  <2>1. /\ str_buff = [i \in 0..StrSize-1 |-> NULL] /\ str_curr_pos = 0
        /\ typed = <<>> /\ state = "New"
    BY DEF Init
  <2>2. typed \in Seq(Key \cup {Blank}) /\ Len(typed) = 0 /\ 0 <= StrSize - 2
    BY <2>1, ScreenAssumption
  <2>3. QED
    BY <2>1, <2>2 DEF StringInv, TextInv
<1>4. ButtonInv
  <2>1. /\ keys_pressed = NULL /\ backspace_bt_pressed = FALSE
        /\ space_bt_pressed = FALSE
    BY DEF Init
  <2>2. QED
    BY <2>1 DEF ButtonInv
<1>5. OtherInv
  <2>1. myData4 = 64 /\ points = FALSE /\ show_keyboard = FALSE
    BY DEF Init
  <2>2. 64 \in 0..128
    OBVIOUS
  <2>3. QED
    BY <2>1, <2>2 DEF OtherInv
<1>6. QED
  BY <1>1, <1>2, <1>3, <1>4, <1>5 DEF IInv

-----------------------------------------------------------------------------
(* Registration. *)
LEMMA RegisterKeeps == ASSUME ListInv, Register PROVE ListInv'
<1> DEFINE P == Programs[program]
           n == booted
           t == P[n + 1]
<1>1. /\ at = "boot" /\ ~stray /\ n < Len(P) /\ reg_task(t) /\ booted' = n + 1
      /\ UNCHANGED <<program, at, active, state>>
  BY DEF Register
<1>2. /\ Roster(P) /\ Linked(taskListHead, next, P, n)
      /\ n \in 0..Len(P) /\ Len(P) \in 1..4
      /\ taskListHead \in Task \cup {NULL}
      /\ next \in [Task -> Task \cup {NULL, Garbage}]
  BY <1>1, Rosters DEF ListInv, Roster
<1>3. program \in DOMAIN Programs /\ active = NULL /\ state = "New"
  BY <1>1 DEF ListInv
<1> HIDE DEF P, n
<1>4. n + 1 \in 1..Len(P) /\ t \in Task
  BY <1>1, <1>2 DEF Roster
<1>5. CASE n = 0
  <2>1. taskListHead = NULL
    BY <1>2, <1>5 DEF Linked
  <2>2. taskListHead' = t /\ UNCHANGED <<next, stray>>
    BY <1>1, <2>1 DEF reg_task
  <2>3. Linked(taskListHead', next', P, 1)
    <3>1. taskListHead' = P[1]
      BY <1>5, <2>2
    <3>2. \A s \in Task : next'[s] \notin Task
      BY <1>2, <1>5, <2>2 DEF Linked
    <3>3. QED
      BY <3>1, <3>2 DEF Linked
  <2>4. QED
    <3>1. /\ taskListHead' \in Task \cup {NULL}
          /\ next' \in [Task -> Task \cup {NULL, Garbage}]
      BY <1>2, <1>4, <2>2
    <3>2. /\ booted' \in 0..Len(Programs[program'])
          /\ Linked(taskListHead', next', Programs[program'], booted')
      BY <1>1, <1>2, <1>4, <1>5, <2>3 DEF P, n
    <3>3. QED
      BY <1>1, <1>3, <2>2, <3>1, <3>2 DEF ListInv
<1>6. CASE n # 0
  <2>1. n \in 1..Len(P) /\ taskListHead = P[1] /\ P[1] \in Task
    BY <1>2, <1>6 DEF Linked, Roster
  <2>2. Way = {P[i] : i \in 1..n} \cup {next[P[n]]}
    BY <1>2, <2>1, WayIs
  <2>3. next[P[n]] \notin Task /\ P[n] \in Task
    <3>1. P[n] \in Task
      BY <1>2, <2>1 DEF Roster
    <3>2. \A i \in 1..n-1 : P[i] # P[n]
      BY <1>2, <2>1 DEF Roster
    <3>3. QED
      BY <1>2, <3>1, <3>2 DEF Linked
  <2>4. t \notin Way
    <3>1. \A i \in 1..n : P[i] # t
      BY <1>2, <1>4, <2>1 DEF Roster
    <3>2. QED
      BY <1>4, <2>2, <2>3, <3>1
  <2>5. \A p \in Way \cap Task : next[p] \notin Task <=> p = P[n]
    <3> SUFFICES ASSUME NEW p \in Way \cap Task, p # P[n]
                 PROVE  next[p] \in Task
      BY <2>3
    <3>1. PICK i \in 1..n : p = P[i]
      BY <2>2, <2>3
    <3>2. i \in 1..n-1 /\ i + 1 \in 1..Len(P)
      BY <1>2, <3>1
    <3>3. next[p] = P[i + 1] /\ P[i + 1] \in Task
      BY <1>2, <3>1, <3>2 DEF Linked, Roster
    <3>4. QED
      BY <3>3
  <2>6. P[n] \in Way \cap Task
    BY <2>1, <2>2, <2>3
  <2>7. (CHOOSE p \in Way \cap Task : next[p] \notin Task) = P[n]
    BY <2>5, <2>6
  <2>8. taskListHead # NULL
    BY <2>1, TaskAssumption
  <2>9. /\ stray' = (next[P[n]] # NULL) /\ UNCHANGED taskListHead
        /\ next' = IF stray' THEN next ELSE [next EXCEPT ![P[n]] = t]
    BY <1>1, <2>4, <2>7, <2>8 DEF reg_task
  <2>10. next' \in [Task -> Task \cup {NULL, Garbage}]
    BY <1>2, <1>4, <2>9
  <2>11. ~stray' => Linked(taskListHead', next', P, n + 1)
    <3> SUFFICES ASSUME ~stray' PROVE Linked(taskListHead', next', P, n + 1)
      OBVIOUS
    <3>1. next' = [next EXCEPT ![P[n]] = t]
      BY <2>9
    <3>2. ASSUME NEW i \in 1..n PROVE next'[P[i]] = P[i + 1]
      <4>1. CASE i = n
        BY <1>2, <2>3, <3>1, <4>1
      <4>2. CASE i # n
        <5>1. i \in 1..n-1 /\ P[i] # P[n]
          BY <1>2, <2>1, <4>2 DEF Roster
        <5>2. QED
          BY <1>2, <3>1, <5>1 DEF Linked
      <4>3. QED
        BY <4>1, <4>2
    <3>3. ASSUME NEW s \in Task, next'[s] \in Task
          PROVE  \E i \in 1..n : s = P[i]
      <4>1. CASE s = P[n]
        BY <2>1, <4>1
      <4>2. CASE s # P[n]
        <5>1. next'[s] = next[s]
          BY <1>2, <3>1, <4>2
        <5>2. PICK i \in 1..n-1 : s = P[i]
          BY <1>2, <3>3, <5>1 DEF Linked
        <5>3. i \in 1..n
          BY <1>2
        <5>4. QED
          BY <5>2, <5>3
      <4>3. QED
        BY <4>1, <4>2
    <3>4. n + 1 # 0 /\ (n + 1) - 1 = n
      BY <1>2
    <3>5. QED
      BY <2>1, <2>9, <3>2, <3>3, <3>4 DEF Linked
  <2>12. stray' \in BOOLEAN
    BY <2>9
  <2>13. QED
    <3>1. booted' \in 0..Len(Programs[program'])
      BY <1>1, <1>2, <1>4 DEF P
    <3>2. ~stray' => Linked(taskListHead', next', Programs[program'], booted')
      BY <1>1, <2>11 DEF P
    <3>3. QED
      BY <1>1, <1>2, <1>3, <2>9, <2>10, <2>12, <3>1, <3>2 DEF ListInv
<1>7. QED
  BY <1>5, <1>6

(* A task of the whole program is found by getTask. *)
LEMMA ShowIs ==
  ASSUME ListInv, ~stray, booted = Len(Programs[program]),
         NEW t \in Tasks(program)
  PROVE  getTask(t) = t
<1>1. PICK i \in 1..booted : t = Programs[program][i]
  BY Rosters DEF ListInv
<1>2. QED
  BY <1>1, Found

(* In the looper the list stays, and one of its tasks is active. *)
Looping == /\ at # "boot" /\ at' \in {"flags", "task"}
           /\ UNCHANGED <<taskList, program, booted>>
           /\ active' = active \/ active' \in Tasks(program)

(* The looper and the state machine leave the list alone. *)
LEMMA LoopingKeeps == ASSUME ListInv, Looping PROVE ListInv'
<1>1. UNCHANGED <<taskListHead, next, stray, program, booted>>
  BY DEF Looping, taskList
<1>2. Linked(taskListHead, next, Programs[program], booted)'
        <=> Linked(taskListHead, next, Programs[program], booted)
  BY <1>1 DEF Linked
<1>3. at' # "boot" /\ at' \in {"boot", "flags", "task"}
  BY DEF Looping
<1>4. active' \in Tasks(program)
  BY DEF Looping, ListInv
<1>5. QED
  BY <1>1, <1>2, <1>3, <1>4 DEF ListInv, Looping

(* The end of the registration. *)
LEMMA BeginKeeps == ASSUME ListInv, Begin PROVE ListInv'
<1>1. /\ at = "boot" /\ ~stray /\ booted = Len(Programs[program])
      /\ active' = getTask(First[program]) /\ state' = "New"
      /\ UNCHANGED <<taskListHead, next, stray, program, booted>>
      /\ at' = "flags"
  BY DEF Begin, setActiveTask, taskList
<1>2. First[program] \in Tasks(program)
  BY Rosters DEF ListInv
<1>3. active' \in Tasks(program)
  BY <1>1, <1>2, ShowIs
<1>4. Linked(taskListHead, next, Programs[program], booted)'
        <=> Linked(taskListHead, next, Programs[program], booted)
  BY <1>1 DEF Linked
<1>5. QED
  BY <1>1, <1>3, <1>4 DEF ListInv

-----------------------------------------------------------------------------
(* What a step that leaves a part alone, or shows a screen, keeps of it. *)
LEMMA ButtonsStay == ButtonInv /\ UNCHANGED buttons => ButtonInv'
BY DEF ButtonInv, buttons

(* The remaining variables. *)
LEMMA OthersStay == OtherInv /\ UNCHANGED others => OtherInv'
<1> SUFFICES ASSUME OtherInv, UNCHANGED others PROVE OtherInv'
  OBVIOUS
<1>1. UNCHANGED <<myData4, points, show_keyboard>>
  BY DEF others
<1>2. QED
  BY <1>1 DEF OtherInv

(* The string. *)
LEMMA StringStays ==
  ASSUME StringInv, UNCHANGED typing,
         \/ state' = "New"
         \/ active' # "keys"
         \/ state # "New" /\ active' = active
         \/ state' = state /\ active' = active
  PROVE  StringInv'
<1>1. UNCHANGED <<str_buff, str_curr_pos, typed>>
  BY DEF typing
<1>2. QED
  BY <1>1 DEF StringInv, TextInv

(* The screens that have a touch mask. *)
LEMMA MaskIs ==
  DOMAIN mask = {"menu", "sliders", "keys", "graph", "terminal"}
BY DEF mask

(* The touches. *)
LEMMA TouchStays ==
  ASSUME TouchInv, UNCHANGED <<touch, active, state, noted>>
  PROVE  TouchInv'
BY DEF TouchInv, TouchIsFresh

(* A handled touch is gone, and a new screen is not drawn. *)
LEMMA TouchHandled ==
  ASSUME TouchInv, NEW t \in DOMAIN mask, Handle(t),
         noted' = FALSE,
         \/ state' = "New"
         \/ UNCHANGED <<active, state>>
  PROVE  TouchInv'
<1>1. touch' = [touch EXCEPT ![t] = FALSE] /\ active = t
  BY DEF Handle, Doing
<1>2. touch' \in [DOMAIN mask -> BOOLEAN] /\ touch'[t] = FALSE
  BY <1>1 DEF TouchInv
<1>3. state' \in {"New", "Painting", "Running"}
  BY DEF TouchInv
<1>4. TouchIsFresh'
  BY <1>1, <1>2 DEF TouchIsFresh
<1>5. QED
  BY <1>2, <1>3, <1>4 DEF TouchInv

(* Show(s), of one of the program's screens. *)
LEMMA Shows ==
  ASSUME ListInv, at # "boot", NEW s \in Tasks(program), setActiveTask(s)
  PROVE  /\ active' = s /\ state' = "New" /\ noted' = FALSE
         /\ UNCHANGED <<taskList, program, booted>>
<1>1. ~stray /\ booted = Len(Programs[program])
  BY DEF ListInv
<1>2. QED
  BY <1>1, ShowIs DEF setActiveTask

(* The screens that belong together. *)
LEMMA Together ==
  ASSUME ListInv, at # "boot"
  PROVE  /\ active \in {"menu", "sliders", "keys", "graph"} =>
              {"menu", "sliders", "keys", "graph"} \subseteq Tasks(program)
         /\ active = "terminal" => "terminal" \in Tasks(program)
<1>1. active \in Tasks(program) /\ program \in DOMAIN Programs
  BY DEF ListInv
<1>2. \/ Tasks(program) = {"menu", "sliders", "keys", "graph"}
      \/ Tasks(program) = {"terminal"}
      \/ Tasks(program) = {"demoMenu", "demoGraph", "demoSettings"}
  BY <1>1, ThreePrograms
<1>3. QED
  BY <1>1, <1>2

-----------------------------------------------------------------------------
(* Registration keeps the other parts too. *)
LEMMA BootKeeps == ASSUME IInv, Register \/ Begin PROVE IInv'
<1>1. CASE Register
  <2>1. UNCHANGED <<active, state, touch, noted>> /\ UNCHANGED typing
        /\ UNCHANGED buttons /\ UNCHANGED others
    BY <1>1 DEF Register
  <2>2. ListInv' /\ TouchInv' /\ StringInv'
    BY <1>1, <2>1, RegisterKeeps, TouchStays, StringStays DEF IInv
  <2>3. QED
    BY <2>1, <2>2, ButtonsStay, OthersStay DEF IInv
<1>2. CASE Begin
  <2>1. /\ state' = "New" /\ noted' = FALSE /\ UNCHANGED touch
        /\ UNCHANGED typing /\ UNCHANGED buttons /\ UNCHANGED others
    BY <1>2 DEF Begin, setActiveTask
  <2>2. TouchInv'
    BY <2>1 DEF IInv, TouchInv, TouchIsFresh
  <2>3. ListInv' /\ StringInv'
    BY <1>2, <2>1, BeginKeeps, StringStays DEF IInv
  <2>4. QED
    BY <2>1, <2>2, <2>3, ButtonsStay, OthersStay DEF IInv
<1>3. QED
  BY <1>1, <1>2

(* Steps that handle no touch. *)
LEMMA QuietKeeps == ASSUME IInv, NoInterrupt \/ WaitDrawn \/ Idle PROVE IInv'
<1>1. /\ at \in {"flags", "task"} /\ at' \in {"flags", "task"}
      /\ UNCHANGED <<taskList, engine, touch, typing, buttons, others>>
  BY DEF NoInterrupt, WaitDrawn, Idle, Doing
<1>2. /\ UNCHANGED <<program, booted, active, state, noted, touch, taskList>>
      /\ UNCHANGED typing /\ UNCHANGED buttons /\ UNCHANGED others
  BY <1>1 DEF engine
<1>3. Looping
  BY <1>1, <1>2 DEF Looping
<1>4. ListInv' /\ TouchInv' /\ StringInv'
  BY <1>2, <1>3, LoopingKeeps, TouchStays, StringStays DEF IInv
<1>5. QED
  BY <1>2, <1>4, ButtonsStay, OthersStay DEF IInv

(* The interrupt may store a touch for the screen that is shown. *)
LEMMA InterruptKeeps ==
  ASSUME IInv, NEW flags \in SUBSET Flags, Interrupt(flags)
  PROVE  IInv'
<1>1. /\ at = "flags" /\ at' = "task" /\ gpuit(flags)
      /\ "CMDEMPTY" \in flags => state = "Painting"
      /\ state' = IF "CMDEMPTY" \in flags THEN "Running" ELSE state
      /\ UNCHANGED <<taskList, program, booted, active>>
      /\ UNCHANGED typing /\ UNCHANGED buttons /\ UNCHANGED others
  BY DEF Interrupt
<1>2. noted' = \/ noted
               \/ /\ state' = "Running" /\ active \in DOMAIN mask
                  /\ flags \cap mask[active] # {}
  BY DEF Interrupt
<1>3. ListInv'
  <2>1. Looping
    BY <1>1 DEF Looping
  <2>2. QED
    BY <2>1, LoopingKeeps DEF IInv
<1>4. TouchInv'
  <2>1. touch \in [DOMAIN mask -> BOOLEAN] /\ noted \in BOOLEAN
        /\ state \in {"New", "Painting", "Running"}
    BY DEF IInv, TouchInv
  <2>2. /\ touch' \in [DOMAIN mask -> BOOLEAN]
        /\ active \in DOMAIN mask => touch'[active] =
                                       (flags \cap mask[active] # {})
    <3>1. CASE active \in DOMAIN mask
      <4>1. touch' = [touch EXCEPT ![active] = flags \cap mask[active] # {}]
        BY <1>1, <3>1 DEF gpuit
      <4>2. QED
        BY <2>1, <3>1, <4>1
    <3>2. CASE active \notin DOMAIN mask
      BY <1>1, <2>1, <3>2 DEF gpuit
    <3>3. QED
      BY <3>1, <3>2
  <2>3. state' \in {"New", "Painting", "Running"} /\ noted' \in BOOLEAN
    BY <1>1, <1>2, <2>1
  <2>4. TouchIsFresh'
    BY <1>1, <1>2, <2>2 DEF TouchIsFresh
  <2>5. QED
    BY <2>2, <2>3, <2>4 DEF TouchInv
<1>5. StringInv'
  BY <1>1, StringStays DEF IInv
<1>6. QED
  BY <1>1, <1>3, <1>4, <1>5, ButtonsStay, OthersStay DEF IInv

(* Painting shows the cursor in the string and leaves the rest. *)
LEMMA PaintingKeeps == ASSUME IInv, Painting PROVE IInv'
<1>1. /\ at = "task" /\ at' = "flags" /\ state = "New" /\ state' = "Painting"
      /\ str_buff' = IF active = "keys" THEN ShowCursor ELSE str_buff
      /\ UNCHANGED <<taskList, program, booted, active, touch, noted>>
      /\ UNCHANGED <<str_curr_pos, typed>>
      /\ UNCHANGED buttons /\ UNCHANGED others
  BY DEF Painting
<1>2. ListInv'
  <2>1. Looping
    BY <1>1 DEF Looping
  <2>2. QED
    BY <2>1, LoopingKeeps DEF IInv
<1>3. TouchInv'
  BY <1>1 DEF IInv, TouchInv, TouchIsFresh
<1>4. StringInv'
  <2>1. /\ str_buff \in [0..StrSize-1 -> Key \cup {Blank, Cursor, NULL}]
        /\ typed \in Seq(Key \cup {Blank})
        /\ str_curr_pos = Len(typed) /\ Len(typed) <= StrSize - 2
        /\ \A i \in 1..Len(typed) : str_buff[i - 1] = typed[i]
    BY DEF IInv, StringInv, TextInv
  <2>2. CASE active # "keys"
    BY <1>1, <2>1, <2>2 DEF StringInv, TextInv
  <2>3. CASE active = "keys"
    <3> DEFINE n == Len(typed)
    <3>1. n \in Nat /\ n <= StrSize - 2 /\ StrSize \in Nat
      BY <2>1, LenProperties, ScreenAssumption
    <3>2. str_buff' = [str_buff EXCEPT ![n] = Cursor, ![n + 1] = NULL]
      BY <1>1, <2>1, <2>3 DEF ShowCursor
    <3> HIDE DEF n
    <3>3. n \in 0..StrSize-1 /\ n + 1 \in 0..StrSize-1 /\ n # n + 1
      BY <3>1
    <3>4. /\ str_buff' \in [0..StrSize-1 -> Key \cup {Blank, Cursor, NULL}]
          /\ str_buff'[n] = Cursor /\ str_buff'[n + 1] = NULL
          /\ \A i \in 0..n-1 : str_buff'[i] = str_buff[i]
      BY <2>1, <3>1, <3>2, <3>3
    <3>5. ASSUME NEW i \in 1..n PROVE str_buff'[i - 1] = typed[i]
      <4>1. i - 1 \in 0..n-1
        BY <3>1
      <4>2. QED
        BY <2>1, <3>4, <4>1 DEF n
    <3>6. QED
      BY <1>1, <2>1, <3>4, <3>5 DEF StringInv, TextInv, n
  <2>4. QED
    BY <2>2, <2>3
<1>5. QED
  BY <1>1, <1>2, <1>3, <1>4, ButtonsStay, OthersStay DEF IInv

-----------------------------------------------------------------------------
(* A doing function that handled a touch and shows s or stays. *)
LEMMA DoingKeeps ==
  ASSUME IInv, NEW t \in DOMAIN mask, Handle(t), at # "boot",
         \/ \E s \in Tasks(program) : Show(s)
         \/ Stay
  PROVE  /\ ListInv' /\ TouchInv'
         /\ state' = "New" \/ UNCHANGED <<active, state>>
<1>1. at' = "flags"
  BY DEF Handle, Doing
<1>2. CASE \E s \in Tasks(program) : Show(s)
  <2>1. PICK s \in Tasks(program) : setActiveTask(s)
    BY <1>2 DEF Show
  <2>2. /\ active' = s /\ state' = "New" /\ noted' = FALSE
        /\ UNCHANGED <<taskList, program, booted>>
    BY <2>1, Shows DEF IInv
  <2>3. Looping
    BY <1>1, <2>2 DEF Looping
  <2>4. QED
    BY <2>2, <2>3, LoopingKeeps, TouchHandled DEF IInv
<1>3. CASE Stay
  <2>1. noted' = FALSE /\ UNCHANGED <<active, state>>
        /\ UNCHANGED <<taskList, program, booted>>
    BY <1>3 DEF Stay
  <2>2. Looping
    BY <1>1, <2>1 DEF Looping
  <2>3. QED
    BY <2>1, <2>2, LoopingKeeps, TouchHandled DEF IInv
<1>4. QED
  BY <1>2, <1>3

(* The menu. *)
LEMMA MenuKeeps ==
  ASSUME IInv, NEW tag, menu_doing(tag)
  PROVE  IInv'
<1>1. /\ Handle("menu") /\ at # "boot" /\ active = "menu"
      /\ UNCHANGED typing /\ UNCHANGED buttons /\ UNCHANGED others
      /\ "menu" \in DOMAIN mask
  BY MaskIs DEF menu_doing, Handle, Doing
<1>2. (\E s \in Tasks(program) : Show(s)) \/ Stay
  <2>1. {"sliders", "keys", "graph"} \subseteq Tasks(program)
    BY <1>1, Together DEF IInv
  <2>2. QED
    BY <2>1 DEF menu_doing
<1>3. /\ ListInv' /\ TouchInv'
      /\ state' = "New" \/ UNCHANGED <<active, state>>
  BY <1>1, <1>2, DoingKeeps
<1>4. StringInv'
  BY <1>1, <1>3, StringStays DEF IInv
<1>5. QED
  BY <1>1, <1>3, <1>4, ButtonsStay, OthersStay DEF IInv

(* The sliders. *)
LEMMA SlidersKeeps ==
  ASSUME IInv, NEW tag, NEW value \in {0, 65535}, sliders_doing(tag, value)
  PROVE  IInv'
<1>1. /\ Handle("sliders") /\ at # "boot" /\ active = "sliders"
      /\ UNCHANGED typing /\ UNCHANGED buttons
      /\ UNCHANGED <<points, show_keyboard>>
      /\ "sliders" \in DOMAIN mask
  BY MaskIs DEF sliders_doing, Handle, Doing
<1>2. (\E s \in Tasks(program) : Show(s)) \/ Stay
  <2>1. {"menu", "sliders"} \subseteq Tasks(program)
    BY <1>1, Together DEF IInv
  <2>2. QED
    BY <2>1 DEF sliders_doing
<1>3. /\ ListInv' /\ TouchInv'
      /\ state' = "New" \/ UNCHANGED <<active, state>>
  BY <1>1, <1>2, DoingKeeps
<1>4. StringInv'
  BY <1>1, <1>3, StringStays DEF IInv
<1>5. OtherInv'
  <2>1. duty(value) \in 0..128
    BY DEF duty
  <2>2. myData4' = duty(value) \/ myData4' = myData4
    BY DEF sliders_doing
  <2>3. myData4' \in 0..128
    BY <2>1, <2>2 DEF IInv, OtherInv
  <2>4. QED
    BY <1>1, <2>3 DEF IInv, OtherInv
<1>6. QED
  BY <1>1, <1>3, <1>4, <1>5, ButtonsStay DEF IInv

(* The terminal. *)
LEMMA TerminalKeeps ==
  ASSUME IInv, NEW tag, terminal_doing(tag)
  PROVE  IInv'
<1>1. /\ Handle("terminal") /\ at # "boot" /\ active = "terminal"
      /\ UNCHANGED typing /\ UNCHANGED buttons
      /\ UNCHANGED <<myData4, points>>
      /\ "terminal" \in DOMAIN mask
  BY MaskIs DEF terminal_doing, Handle, Doing
<1>2. (\E s \in Tasks(program) : Show(s)) \/ Stay
  <2>1. "terminal" \in Tasks(program)
    BY <1>1, Together DEF IInv
  <2>2. QED
    BY <2>1 DEF terminal_doing
<1>3. /\ ListInv' /\ TouchInv'
      /\ state' = "New" \/ UNCHANGED <<active, state>>
  BY <1>1, <1>2, DoingKeeps
<1>4. StringInv'
  BY <1>1, <1>3, StringStays DEF IInv
<1>5. OtherInv'
  <2>1. show_keyboard' = ~show_keyboard \/ show_keyboard' = show_keyboard
    BY DEF terminal_doing
  <2>2. show_keyboard' \in BOOLEAN
    BY <2>1 DEF IInv, OtherInv
  <2>3. QED
    BY <1>1, <2>2 DEF IInv, OtherInv
<1>6. QED
  BY <1>1, <1>3, <1>4, <1>5, ButtonsStay DEF IInv

(* The graph's flag is neither read nor cleared. *)
LEMMA GraphKeeps ==
  ASSUME IInv, NEW tag, graph_doing(tag)
  PROVE  IInv'
<1>1. /\ at # "boot" /\ at' = "flags" /\ active = "graph"
      /\ UNCHANGED touch /\ UNCHANGED typing /\ UNCHANGED buttons
      /\ UNCHANGED <<myData4, show_keyboard>>
  BY DEF graph_doing, Doing
<1>2. \/ /\ \E s \in Tasks(program) : setActiveTask(s)
         /\ points' = points \/ points' \in BOOLEAN
      \/ UNCHANGED <<taskList, engine, points>>
  <2>1. {"menu", "graph"} \subseteq Tasks(program)
    BY <1>1, Together DEF IInv
  <2>2. QED
    BY <2>1 DEF graph_doing, Show
<1>3. ListInv' /\ TouchInv' /\ StringInv'
  <2>1. CASE \E s \in Tasks(program) : setActiveTask(s)
    <3>1. PICK s \in Tasks(program) : setActiveTask(s)
      BY <2>1
    <3>2. /\ active' = s /\ state' = "New" /\ noted' = FALSE
          /\ UNCHANGED <<taskList, program, booted>>
      BY <1>1, <3>1, Shows DEF IInv
    <3>3. Looping
      BY <1>1, <3>2 DEF Looping
    <3>4. TouchInv'
      BY <1>1, <3>2 DEF IInv, TouchInv, TouchIsFresh
    <3>5. QED
      BY <1>1, <3>2, <3>3, <3>4, LoopingKeeps, StringStays DEF IInv
  <2>2. CASE UNCHANGED <<taskList, engine, points>>
    <3>1. /\ UNCHANGED <<taskList, program, booted>>
          /\ UNCHANGED <<touch, active, state, noted>>
      BY <1>1, <2>2 DEF engine
    <3>2. Looping
      BY <1>1, <3>1 DEF Looping
    <3>3. QED
      BY <1>1, <3>1, <3>2, LoopingKeeps, TouchStays, StringStays DEF IInv
  <2>3. QED
    BY <1>2, <2>1, <2>2
<1>4. OtherInv'
  <2>1. points' \in BOOLEAN
    BY <1>2 DEF IInv, OtherInv
  <2>2. QED
    BY <1>1, <2>1 DEF IInv, OtherInv
<1>5. QED
  BY <1>1, <1>3, <1>4, ButtonsStay DEF IInv

-----------------------------------------------------------------------------
(* The keyboard: the string stays the one an editor would have. *)
LEMMA TypeKeeps ==
  ASSUME TextInv, NEW c \in Key \cup {Blank}, Type(c)
  PROVE  TextInv'
<1>1. CASE str_curr_pos < StrSize - 2
  <2> DEFINE n == Len(typed)
             t == typed'
  <2>1. /\ str_buff' = [str_buff EXCEPT ![n] = c] /\ str_curr_pos' = n + 1
        /\ t = Append(typed, c)
    BY <1>1 DEF Type, TextInv
  <2>2. n \in Nat /\ n < StrSize - 2 /\ StrSize \in Nat
    BY <1>1, LenProperties, ScreenAssumption DEF TextInv
  <2>3. /\ t \in Seq(Key \cup {Blank}) /\ Len(t) = n + 1 /\ t[n + 1] = c
        /\ \A i \in 1..n : t[i] = typed[i]
    BY <2>1, AppendProperties DEF TextInv
  <2>4. \A i \in 1..n : str_buff[i - 1] = typed[i]
    BY DEF TextInv
  <2>5. str_buff \in [0..StrSize-1 -> Key \cup {Blank, Cursor, NULL}]
    BY DEF TextInv
  <2> HIDE DEF n, t
  <2>6. n \in 0..StrSize-1
    BY <2>2
  <2>7. /\ str_buff' \in [0..StrSize-1 -> Key \cup {Blank, Cursor, NULL}]
        /\ str_buff'[n] = c
        /\ \A i \in 0..n-1 : str_buff'[i] = str_buff[i]
    BY <2>1, <2>2, <2>5, <2>6
  <2>8. ASSUME NEW i \in 1..n+1 PROVE str_buff'[i - 1] = t[i]
    <3>1. CASE i = n + 1
      <4>1. i - 1 = n
        BY <2>2, <3>1
      <4>2. QED
        BY <2>3, <2>7, <3>1, <4>1
    <3>2. CASE i # n + 1
      <4>1. i \in 1..n /\ i - 1 \in 0..n-1
        BY <2>2, <3>2
      <4>2. QED
        BY <2>3, <2>4, <2>7, <4>1
    <3>3. QED
      BY <3>1, <3>2
  <2>9. n + 1 <= StrSize - 2
    BY <2>2
  <2>10. /\ typed' \in Seq(Key \cup {Blank}) /\ Len(typed') = n + 1
         /\ \A i \in 1..n+1 : str_buff'[i - 1] = typed'[i]
    BY <2>3, <2>8 DEF t
  <2>11. QED
    BY <2>1, <2>7, <2>9, <2>10 DEF TextInv
<1>2. CASE ~(str_curr_pos < StrSize - 2)
  BY <1>2 DEF Type, TextInv, typing
<1>3. QED
  BY <1>1, <1>2

(* Backspace takes the last character, where there is one. *)
LEMMA EraseKeeps ==
  ASSUME TextInv, Erase
  PROVE  TextInv'
<1>1. CASE str_curr_pos > 0
  <2> DEFINE n == Len(typed)
             t == typed'
  <2>1. /\ UNCHANGED str_buff /\ str_curr_pos' = n - 1
        /\ t = SubSeq(typed, 1, n - 1)
    BY <1>1 DEF Erase, TextInv, Front
  <2>2. n \in Nat /\ n > 0 /\ n <= StrSize - 2 /\ StrSize \in Nat
    BY <1>1, LenProperties, ScreenAssumption DEF TextInv
  <2>3. typed \in Seq(Key \cup {Blank})
    BY DEF TextInv
  <2>4. /\ t \in Seq(Key \cup {Blank}) /\ Len(t) = n - 1
        /\ \A i \in 1..n-1 : t[i] = typed[i]
    <3>1. 1 \in 1..n+1 /\ n - 1 \in 0..n /\ (n - 1) - 1 + 1 = n - 1
      BY <2>2
    <3>2. n - 1 \in Int /\ n - 1 >= 0 /\ n - 1 <= Len(typed)
      BY <2>2
    <3>3. QED
      BY <2>1, <2>2, <2>3, <3>1, <3>2, SubSeqProperties
  <2>5. \A i \in 1..n : str_buff[i - 1] = typed[i]
    BY DEF TextInv
  <2> HIDE DEF n, t
  <2>6. \A i \in 1..n-1 : str_buff'[i - 1] = t[i]
    BY <2>1, <2>2, <2>4, <2>5
  <2>7. n - 1 <= StrSize - 2
    BY <2>2
  <2>8. /\ typed' \in Seq(Key \cup {Blank}) /\ Len(typed') = n - 1
        /\ \A i \in 1..n-1 : str_buff'[i - 1] = typed'[i]
    BY <2>4, <2>6 DEF t
  <2>9. QED
    BY <2>1, <2>7, <2>8 DEF TextInv
<1>2. CASE ~(str_curr_pos > 0)
  BY <1>2 DEF Erase, TextInv, typing
<1>3. QED
  BY <1>1, <1>2

(* Press lights the one button of its tag. *)
LEMMA PressKeepsOne ==
  ASSUME NEW tag, Press(tag)
  PROVE  ButtonInv'
<1>1. /\ keys_pressed' = IF tag \in Key THEN tag ELSE NULL
      /\ backspace_bt_pressed' = (tag = "backspace")
      /\ space_bt_pressed' = (tag = "space")
  BY DEF Press
<1>2. "backspace" \notin Key /\ "space" \notin Key
  BY ScreenAssumption
<1>3. /\ keys_pressed' \in Key \cup {NULL}
      /\ keys_pressed' # NULL => tag \in Key
  BY <1>1
<1>4. backspace_bt_pressed' \in BOOLEAN /\ space_bt_pressed' \in BOOLEAN
  BY <1>1
<1>5. /\ backspace_bt_pressed' => tag = "backspace"
      /\ space_bt_pressed' => tag = "space"
  BY <1>1
<1>6. "backspace" # "space"
  OBVIOUS
<1>7. QED
  BY <1>2, <1>3, <1>4, <1>5, <1>6 DEF ButtonInv

(* The whole doing function of the keyboard. *)
LEMMA KeyboardKeeps ==
  ASSUME IInv, NEW tag, keyboard_doing(tag)
  PROVE  IInv'
<1>1. /\ Handle("keys") /\ at # "boot" /\ active = "keys"
      /\ Press(tag) /\ UNCHANGED others /\ "keys" \in DOMAIN mask
  BY MaskIs DEF keyboard_doing, Handle, Doing
<1>2. \E s \in {"menu", "keys"} : setActiveTask(s)
  BY DEF keyboard_doing, Show
<1>3. {"menu", "keys"} \subseteq Tasks(program)
  BY <1>1, Together DEF IInv
<1>4. state' = "New"
  BY <1>2 DEF setActiveTask
<1>5. ListInv' /\ TouchInv'
  <2>1. \E s \in Tasks(program) : Show(s)
    BY <1>2, <1>3 DEF Show
  <2>2. QED
    BY <1>1, <2>1, DoingKeeps
<1>6. StringInv'
  <2>1. TextInv
    BY DEF IInv, StringInv, TextInv
  <2>2. \/ \E c \in Key \cup {Blank} : Type(c)
        \/ Erase
        \/ UNCHANGED typing
    BY DEF keyboard_doing
  <2>3. TextInv'
    <3>1. CASE UNCHANGED typing
      BY <2>1, <3>1 DEF typing, TextInv
    <3>2. QED
      BY <2>1, <2>2, <3>1, TypeKeeps, EraseKeeps
  <2>4. QED
    BY <1>4, <2>3 DEF StringInv, TextInv
<1>7. QED
  BY <1>1, <1>5, <1>6, PressKeepsOne, OthersStay DEF IInv

-----------------------------------------------------------------------------
(* Every step keeps the invariant. *)
LEMMA StepKeeps == IInv /\ [Next]_vars => IInv'
<1> SUFFICES ASSUME IInv, [Next]_vars PROVE IInv'
  OBVIOUS
<1>1. CASE Register \/ Begin
  BY <1>1, BootKeeps
<1>2. CASE NoInterrupt \/ WaitDrawn \/ Idle
  BY <1>2, QuietKeeps
<1>3. CASE \E flags \in SUBSET Flags : Interrupt(flags)
  BY <1>3, InterruptKeeps
<1>4. CASE Painting
  BY <1>4, PaintingKeeps
<1>5. CASE \E tag \in {"sliders", "keys", "graph", "none"} : menu_doing(tag)
  BY <1>5, MenuKeeps
<1>6. CASE \E tag \in {"home", "color", "gauge", "none"},
              value \in {0, 65535} : sliders_doing(tag, value)
  BY <1>6, SlidersKeeps
<1>7. CASE \E tag \in Key \cup {"backspace", "shift", "space", "cancel", "ok",
                               "none"} : keyboard_doing(tag)
  BY <1>7, KeyboardKeeps
<1>8. CASE \E tag \in {"home", "field", "none"} : graph_doing(tag)
  BY <1>8, GraphKeeps
<1>9. CASE \E tag \in {"up", "down", "keyboard", "none"} : terminal_doing(tag)
  BY <1>9, TerminalKeeps
<1>10. CASE UNCHANGED vars
  <2>1. /\ UNCHANGED <<taskListHead, next, stray, program, booted, at>>
        /\ UNCHANGED <<touch, active, state, noted>>
        /\ UNCHANGED typing /\ UNCHANGED buttons /\ UNCHANGED others
    BY <1>10 DEF vars, taskList, engine
  <2>2. ListInv'
    BY <2>1 DEF IInv, ListInv
  <2>3. TouchInv' /\ StringInv'
    BY <2>1, TouchStays, StringStays DEF IInv
  <2>4. QED
    BY <2>1, <2>2, <2>3, ButtonsStay, OthersStay DEF IInv
<1>11. CASE Lost
  BY <1>10, <1>11 DEF Lost
<1>12. QED
  BY <1>1, <1>2, <1>3, <1>4, <1>5, <1>6, <1>7, <1>8, <1>9, <1>10, <1>11
     DEF Next

-----------------------------------------------------------------------------
(* The list of tasks, the touches, the keyboard's string and its buttons   *)
(* are at all times as the parts of the invariant say (my_tasks.c,         *)
(* terminal_task.c, ft80x_engine_it.c).                                    *)
THEOREM InvCorrect == Spec => []IInv
<1>1. QED
  BY Initial, StepKeeps, PTL DEF Spec

(* The variables keep their types; the gauge's duty stays in its range,    *)
(* and the keyboard's position two characters before the array's end.      *)
THEOREM TypeCorrect == Spec => []ScreensTypeOK
<1>1. IInv => ScreensTypeOK
  <2> SUFFICES ASSUME IInv PROVE ScreensTypeOK
    OBVIOUS
  <2>1. /\ taskListHead \in Task \cup {NULL} /\ program \in DOMAIN Programs
        /\ next \in [Task -> Task \cup {NULL, Garbage}]
        /\ at \in {"boot", "flags", "task"} /\ stray \in BOOLEAN
    BY DEF IInv, ListInv
  <2>2. booted \in 0..4 /\ Tasks(program) \subseteq Task
    <3>1. booted \in 0..Len(Programs[program]) /\ Roster(Programs[program])
      BY <2>1, Rosters DEF IInv, ListInv
    <3>2. Tasks(program) \subseteq Task
      BY <2>1, <3>1, Rosters DEF Roster
    <3>3. QED
      BY <3>1, <3>2 DEF Roster
  <2>3. active \in Task \cup {NULL, Garbage}
    <3>1. active = NULL \/ active \in Tasks(program)
      BY DEF IInv, ListInv
    <3>2. QED
      BY <2>2, <3>1
  <2>4. /\ touch \in [DOMAIN mask -> BOOLEAN] /\ noted \in BOOLEAN
        /\ state \in {"New", "Painting", "Running"}
    BY DEF IInv, TouchInv
  <2>5. /\ str_buff \in [0..StrSize-1 -> Key \cup {Blank, Cursor, NULL}]
        /\ str_curr_pos \in 0..StrSize-2
    <3>1. Len(typed) \in Nat /\ Len(typed) <= StrSize - 2 /\ StrSize \in Nat
      BY LenProperties, ScreenAssumption DEF IInv, StringInv, TextInv
    <3>2. QED
      BY <3>1 DEF IInv, StringInv, TextInv
  <2>6. /\ keys_pressed \in Key \cup {NULL}
        /\ backspace_bt_pressed \in BOOLEAN /\ space_bt_pressed \in BOOLEAN
    BY DEF IInv, ButtonInv
  <2>7. /\ myData4 \in 0..128
        /\ points \in BOOLEAN /\ show_keyboard \in BOOLEAN
    BY DEF IInv, OtherInv
  <2>8. {stray, noted, backspace_bt_pressed, space_bt_pressed, points,
         show_keyboard} \subseteq BOOLEAN
    BY <2>1, <2>4, <2>6, <2>7
  <2>9. QED
    BY <2>1, <2>2, <2>3, <2>4, <2>5, <2>6, <2>7, <2>8 DEF ScreensTypeOK
<1>2. QED
  BY <1>1, InvCorrect, PTL

(* Registered tasks are found, and the looper always has one to run        *)
(* (ft80x_engine_it.c:190-265).                                            *)
THEOREM TasksFound == Spec => []TaskFound
<1>1. IInv => TaskFound
  BY Found DEF IInv, ListInv, TaskFound
<1>2. QED
  BY <1>1, InvCorrect, PTL

(* No doing function handles a touch that was read before its screen was   *)
(* drawn (my_tasks.c, terminal_task.c).                                    *)
THEOREM TouchesFresh == Spec => []TouchIsFresh
<1>1. IInv => TouchIsFresh
  BY DEF IInv, TouchInv
<1>2. QED
  BY <1>1, InvCorrect, PTL

(* The keyboard shows what was typed, for every length of its array and    *)
(* every sequence of keys (my_tasks.c:285-287, 370-447).                   *)
THEOREM StringShown == Spec => []Shown
<1>1. IInv => Shown
  BY DEF IInv, StringInv, TextInv, Shown
<1>2. QED
  BY <1>1, InvCorrect, PTL

(* At most one button is shown flat (my_tasks.c:380-384).                  *)
THEOREM OneButtonLit == Spec => []OneLit
<1>1. IInv => OneLit
  <2> SUFFICES ASSUME IInv PROVE OneLit
    OBVIOUS
  <2> DEFINE flat == <<keys_pressed # NULL, backspace_bt_pressed,
                       space_bt_pressed>>
  <2>1. /\ flat[1] = (keys_pressed # NULL) /\ flat[2] = backspace_bt_pressed
        /\ flat[3] = space_bt_pressed
    OBVIOUS
  <2>2. /\ ~(flat[1] /\ flat[2]) /\ ~(flat[1] /\ flat[3])
        /\ ~(flat[2] /\ flat[3])
    BY <2>1 DEF IInv, ButtonInv
  <2> HIDE DEF flat
  <2>3. \A i, j \in 1..3 : flat[i] /\ flat[j] => i = j
    BY <2>2
  <2>4. QED
    BY <2>3 DEF OneLit, flat
<1>2. QED
  BY <1>1, InvCorrect, PTL

-----------------------------------------------------------------------------
(* The sizes of the lists.                                                 *)

(* The sizes of the chip's FIFO, of the terminal's lines and of its two    *)
(* screens as the code has them; the keyboard's string may be longer.      *)
RealSizes == /\ FifoSize = 4096 /\ StrSize <= 3000
             /\ LineChars = 59 /\ ScreenLines = 14 /\ KeyboardLines = 6

(* Whole words, with a word of the FIFO left. *)
Fitting(n) == n % 4 = 0 /\ n + 4 <= FifoSize

LEMMA PaddedIs ==
  ASSUME NEW n \in Nat
  PROVE  Padded(n) \in n..n+3 /\ Padded(n) % 4 = 0
<1>1. n % 4 \in 0..3 /\ n = 4 * (n \div 4) + (n % 4) /\ n \div 4 \in Nat
  OBVIOUS
<1>2. QED
  BY <1>1 DEF Padded

LEMMA TestLists ==
  ASSUME RealSizes, NEW len \in 2..StrSize
  PROVE  /\ Fitting(task1_painting) /\ Fitting(task2_painting)
         /\ Fitting(keyboardTask_painting(len))
         /\ \A p \in BOOLEAN : Fitting(graphExample_painting(p))
<1>1. task1_painting = 4 * 30
  BY DEF task1_painting, Words, Text, Padded
<1>2. task2_painting = 4 * 69
  BY DEF task2_painting, Words, Text, Padded, Color, Slider, Track, Gauge, Memwrite
<1>3. keyboardTask_painting(len) = 4 * 111 + Padded(len)
  BY DEF keyboardTask_painting, Words, Text, Padded, Number, Color, Keys, Button
<1>4. ASSUME NEW p \in BOOLEAN
      PROVE  graphExample_painting(p) = 4 * 106 \/ graphExample_painting(p) = 4 * 99
  BY DEF graphExample_painting, Words, Text, Padded, Track
<1>5. Padded(len) \in len..len+3 /\ Padded(len) % 4 = 0
  BY PaddedIs
<1>6. /\ keyboardTask_painting(len) % 4 = 0
      /\ keyboardTask_painting(len) \in 444..3447
  BY <1>3, <1>5, ScreenAssumption, SMTT(30) DEF RealSizes
<1>7. Fitting(keyboardTask_painting(len))
  <2> DEFINE n == keyboardTask_painting(len)
  <2>1. n % 4 = 0 /\ n \in 444..3447
    BY <1>6
  <2> HIDE DEF n
  <2>2. n % 4 = 0 /\ n + 4 <= FifoSize
    BY <2>1 DEF RealSizes
  <2>3. QED
    BY <2>2 DEF Fitting, n
<1>8. Fitting(4 * 30) /\ Fitting(4 * 69) /\ Fitting(4 * 106) /\ Fitting(4 * 99)
  BY DEF Fitting, RealSizes
<1>9. Fitting(task1_painting) /\ Fitting(task2_painting)
  BY <1>1, <1>2, <1>8, Zenon
<1>10. ASSUME NEW p \in BOOLEAN PROVE Fitting(graphExample_painting(p))
  BY <1>4, <1>8, ZenonT(30)
<1>11. QED
  BY <1>7, <1>9, <1>10

LEMMA DemoLists ==
  ASSUME RealSizes
  PROVE  /\ Fitting(demoMenuTask_painting) /\ Fitting(demoGraphTask_painting)
         /\ Fitting(demoSettTask_painting)
BY DEF Fitting, RealSizes, demoMenuTask_painting, demoGraphTask_painting,
       demoSettTask_painting, Words, Text, Padded, Color, Button, Progress,
       Slider, Toggle, Gauge

(* A full line of the terminal takes 72 bytes and an empty one 16. *)
LEMMA ScreenLists ==
  ASSUME RealSizes, NEW k \in BOOLEAN, NEW n \in TerminalLists[k]
  PROVE  Fitting(n)
<1> DEFINE m_lines == IF k THEN KeyboardLines ELSE ScreenLines
           texts == UNION {{print_text(full, lines - full, LineChars) :
                              full \in 0..lines} : lines \in 0..m_lines}
           navigations == {print_text_dw_up(scrolls, arrows) :
                             scrolls \in BOOLEAN, arrows \in 0..2}
<1>1. n \in {terminalTask_painting(text, navigation, k) :
               text \in texts, navigation \in navigations}
  BY DEF TerminalLists
<1>2. PICK text \in texts, navigation \in navigations :
        n = terminalTask_painting(text, navigation, k)
  BY <1>1
<1>3. PICK lines \in 0..m_lines :
        text \in {print_text(full, lines - full, LineChars) : full \in 0..lines}
  BY <1>2
<1>4. PICK full \in 0..lines : text = print_text(full, lines - full, LineChars)
  BY <1>3
<1>5. PICK scrolls \in BOOLEAN, arrows \in 0..2 :
        navigation = print_text_dw_up(scrolls, arrows)
  BY <1>2
<1>6. lines \in 0..14 /\ full \in 0..lines
  <2>1. m_lines \in {6, 14}
    BY DEF RealSizes
  <2> HIDE DEF m_lines
  <2>2. lines \in 0..14
    BY <1>3, <2>1
  <2>3. QED
    BY <1>4, <2>2
<1>7. text = 4 * (18 * full + 4 * (lines - full))
  <2>1. Text(LineChars + 1) = 72 /\ Text(1) = 16
    BY DEF RealSizes, Text, Words, Padded
  <2>2. QED
    BY <1>4, <1>6, <2>1 DEF print_text
<1>8. navigation \in {0, 28, 40, 52}
  BY <1>5 DEF print_text_dw_up, Words
<1>9. print_keybard_button = 96 /\ print_keybard(k) \in {0, 260}
  BY DEF print_keybard_button, print_keybard, Words, Color, Button, Text, Keys, Padded
<1>10. n = 4 * 17 + text + navigation + print_keybard_button + print_keybard(k)
  BY <1>2 DEF terminalTask_painting, Words
<1>11. PICK w \in 0..13, z \in {0, 65} :
         navigation = 4 * w /\ print_keybard(k) = 4 * z
  <2>1. 7 \in 0..13 /\ 10 \in 0..13 /\ 13 \in 0..13 /\ 0 \in 0..13
    OBVIOUS
  <2>2. \E w \in 0..13 : navigation = 4 * w
    BY <1>8, <2>1
  <2>3. \E z \in {0, 65} : print_keybard(k) = 4 * z
    BY <1>9
  <2>4. QED
    BY <2>2, <2>3
<1> DEFINE q == 41 + 18 * full + 4 * (lines - full) + w + z
<1>12. q \in 0..1000 /\ n = 4 * q
  BY <1>6, <1>7, <1>9, <1>10, <1>11
<1>13. QED
  BY <1>12 DEF Fitting, RealSizes

(* Every list of the example tasks fits the chip's FIFO, for a keyboard's  *)
(* string of up to 3000 characters and the other sizes of the code.        *)
THEOREM AllListsFit == ASSUME RealSizes PROVE Spec => []ListsFit
<1>1. ASSUME IInv
      PROVE  ListsFit
  <2>1. /\ program \in DOMAIN Programs /\ points \in BOOLEAN
        /\ show_keyboard \in BOOLEAN
    BY <1>1 DEF IInv, ListInv, OtherInv
  <2>2. str_curr_pos + 2 \in 2..StrSize
    <3>1. Len(typed) \in Nat /\ Len(typed) <= StrSize - 2 /\ StrSize \in Nat
      BY <1>1, LenProperties, ScreenAssumption DEF IInv, StringInv, TextInv
    <3>2. QED
      BY <1>1, <3>1 DEF IInv, StringInv, TextInv
  <2> SUFFICES ASSUME NEW t \in Tasks(program), NEW n \in Lists(t)
               PROVE  Fitting(n)
    BY DEF ListsFit, Fitting
  <2>3. t \in {"menu", "sliders", "keys", "graph", "terminal", "demoMenu",
               "demoGraph", "demoSettings"}
    BY <2>1, ThreePrograms
  <2>4. CASE t \in {"menu", "sliders", "keys", "graph"}
    <3>1. n \in {task1_painting, task2_painting,
                 keyboardTask_painting(str_curr_pos + 2),
                 graphExample_painting(points)}
      BY <2>4 DEF Lists
    <3>2. QED
      BY <2>1, <2>2, <3>1, TestLists
  <2>5. CASE t = "terminal"
    <3>1. n \in TerminalLists[show_keyboard]
      BY <2>5 DEF Lists
    <3>2. QED
      BY <2>1, <3>1, ScreenLists
  <2>6. CASE t \in {"demoMenu", "demoGraph", "demoSettings"}
    <3>1. n \in {demoMenuTask_painting, demoGraphTask_painting,
                 demoSettTask_painting}
      BY <2>6 DEF Lists
    <3>2. QED
      BY <3>1, DemoLists
  <2>7. QED
    BY <2>3, <2>4, <2>5, <2>6
<1>2. QED
  BY <1>1, InvCorrect, PTL
=============================================================================
