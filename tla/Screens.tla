------------------------------ MODULE Screens ------------------------------
(***************************************************************************)
(* The screens of the example programs of main.c and what the user does on *)
(* them: my_tasks.c (menu, sliders, keyboard, graph), terminal_task.c and  *)
(* demo_tasks.c, under the looper of ft80x_engine_it.c.                    *)
(*                                                                         *)
(* The looper alternates: it may read the chip's flags and hand them to    *)
(* the active task's gpu_it, then it acts on the state of the task.  The   *)
(* handlers below it are in GpuEngine; taken from there is that a screen   *)
(* is drawn when its CMDEMPTY was read (RunningMeansDrawn).  What the      *)
(* terminal shows is in TerminalBuffer.                                    *)
(***************************************************************************)
EXTENDS TaskList, CommandLists, SequencesExt

CONSTANTS Key,            \* characters typed on the keyboard
          Blank, Cursor,  \* ' ' and '|'
          StrSize,        \* str_size
          FifoSize,       \* FT_CMDFIFO_SIZE
          LineChars,      \* longest line of the terminal
          ScreenLines, KeyboardLines  \* and its lines

ASSUME ScreenAssumption ==
  /\ StrSize \in Nat /\ StrSize > 2
  /\ NULL \notin Key \cup {Blank, Cursor} /\ Cursor \notin Key \cup {Blank}
  /\ Key \cap {"backspace", "shift", "space", "cancel", "ok", "none"} = {}
  /\ {"menu", "sliders", "keys", "graph", "terminal", "demoMenu", "demoGraph",
      "demoSettings"} \subseteq Task

VARIABLES
  program,     \* the example compiled in
  booted,      \* number of its tasks registered
  at,          \* place: registering, in the looper before or after the flags
  active,      \* m_currTask
  state,       \* m_currTaskState
  touch,       \* first element of each task's shared data
  noted,       \* history: a touch was read since the screen was drawn
  str_buff, str_curr_pos,  \* the keyboard's string
  typed,       \* history: the keys in it, as an editor would keep them
  keys_pressed, backspace_bt_pressed, space_bt_pressed,  \* buttons shown flat
  myData4,     \* the gauge
  points,      \* does the graph show two touches?
  show_keyboard

engine   == <<program, booted, active, state, noted>>
typing   == <<str_buff, str_curr_pos, typed>>
buttons  == <<keys_pressed, backspace_bt_pressed, space_bt_pressed>>
others   == <<myData4, points, show_keyboard>>
vars     == <<taskList, engine, at, touch, typing, buttons, others>>

Programs == [test     |-> <<"menu", "sliders", "keys", "graph">>,
             terminal |-> <<"terminal">>,
             demo     |-> <<"demoMenu", "demoGraph", "demoSettings">>]
First    == [test |-> "menu", terminal |-> "terminal", demo |-> "demoSettings"]
Tasks(p) == ToSet(Programs[p])

(* The interrupts that mean a touch to a task. *)
Flags == {"CMDEMPTY", "TAG", "TOUCH", "CONVCOMPLETE"}
mask  == [menu     |-> {"TAG"},
          sliders  |-> {"TAG", "CONVCOMPLETE"},
          keys     |-> {"TAG", "TOUCH"},
          graph    |-> {"TAG", "CONVCOMPLETE"},
          terminal |-> {"TAG", "TOUCH"}]

Init == /\ program \in DOMAIN Programs /\ booted = 0 /\ at = "boot"
        /\ ListInit(Tasks(program))
        /\ active = NULL /\ state = "New" /\ noted = FALSE
        /\ touch = [t \in DOMAIN mask |-> FALSE]
        /\ str_buff = [i \in 0..StrSize-1 |-> NULL] /\ str_curr_pos = 0
        /\ typed = <<>>
        /\ keys_pressed = NULL
        /\ backspace_bt_pressed = FALSE /\ space_bt_pressed = FALSE
        /\ myData4 = 64 /\ points = FALSE /\ show_keyboard = FALSE

-----------------------------------------------------------------------------
setActiveTask(id) == /\ active' = getTask(id)
                     /\ state' = "New"
                     /\ noted' = FALSE
                     /\ UNCHANGED <<taskList, program, booted>>

Register == /\ at = "boot" /\ ~stray
            /\ booted < Len(Programs[program])
            /\ reg_task(Programs[program][booted + 1])
            /\ booted' = booted + 1
            /\ UNCHANGED <<program, at, active, state, touch, noted, typing,
                           buttons, others>>

Begin == /\ at = "boot" /\ ~stray
         /\ booted = Len(Programs[program])
         /\ setActiveTask(First[program])
         /\ at' = "flags"
         /\ UNCHANGED <<touch, typing, buttons, others>>

(* Nothing is known of a program that followed a stray pointer. *)
Lost == stray /\ UNCHANGED vars

-----------------------------------------------------------------------------
(* The looper: reading the flags. *)
NoInterrupt == /\ at = "flags" /\ active # NULL
               /\ at' = "task"
               /\ UNCHANGED <<taskList, engine, touch, typing, buttons, others>>

(* Faulty: a touch is kept until it is handled. *)
gpuitKeeps(flags) == touch' = IF active \in DOMAIN mask
                              THEN [touch EXCEPT ![active] =
                                      @ \/ flags \cap mask[active] # {}]
                              ELSE touch

(* The gpu_it functions; those of the demo screens do nothing. *)
gpuit(flags) == touch' = IF active \in DOMAIN mask
                         THEN [touch EXCEPT ![active] =
                                 flags \cap mask[active] # {}]
                         ELSE touch

Interrupt(flags) ==
  /\ at = "flags" /\ active # NULL
  /\ "CMDEMPTY" \in flags => state = "Painting"
  /\ gpuit(flags)
  /\ state' = IF "CMDEMPTY" \in flags THEN "Running" ELSE state
  /\ noted' = \/ noted
              \/ /\ state' = "Running" /\ active \in DOMAIN mask
                 /\ flags \cap mask[active] # {}
  /\ at' = "task"
  /\ UNCHANGED <<taskList, program, booted, active, typing, buttons, others>>

-----------------------------------------------------------------------------
(* The sizes of the lists the terminal may build: full lines and empty     *)
(* ones, and the navigation.                                               *)
TerminalLists ==
  [keyboard \in BOOLEAN |->
     LET m_lines == IF keyboard THEN KeyboardLines ELSE ScreenLines
         texts == UNION {{print_text(full, lines - full, LineChars) :
                            full \in 0..lines} : lines \in 0..m_lines}
         navigations == {print_text_dw_up(scrolls, arrows) :
                           scrolls \in BOOLEAN, arrows \in 0..2}
     IN  {terminalTask_painting(text, navigation, keyboard) :
            text \in texts, navigation \in navigations}]

(* The sizes of the lists a task may build now. *)
Lists(t) ==
  CASE t = "menu"         -> {task1_painting}
    [] t = "sliders"      -> {task2_painting}
    [] t = "keys"         -> {keyboardTask_painting(str_curr_pos + 2)}
    [] t = "graph"        -> {graphExample_painting(points)}
    [] t = "demoMenu"     -> {demoMenuTask_painting}
    [] t = "demoGraph"    -> {demoGraphTask_painting}
    [] t = "demoSettings" -> {demoSettTask_painting}
    [] t = "terminal"     -> TerminalLists[show_keyboard]

(* Faulty: the 0 behind the cursor is taken for granted. *)
ShowCursorOnly == [str_buff EXCEPT ![str_curr_pos] = Cursor]

ShowCursor == [str_buff EXCEPT ![str_curr_pos] = Cursor,
                               ![str_curr_pos + 1] = NULL]

(* Painting a screen changes nothing but the end of the keyboard's string. *)
Painting ==
  /\ at = "task" /\ state = "New"
  /\ state' = "Painting"
  /\ str_buff' = IF active = "keys" THEN ShowCursor ELSE str_buff
  /\ at' = "flags"
  /\ UNCHANGED <<taskList, program, booted, active, touch, noted, str_curr_pos,
                 typed, buttons, others>>

WaitDrawn == /\ at = "task" /\ state = "Painting"
             /\ at' = "flags"
             /\ UNCHANGED <<taskList, engine, touch, typing, buttons, others>>

-----------------------------------------------------------------------------
(* The doing functions.  tag is what is under the finger now: one of the   *)
(* screen's, or none of them.                                              *)
Stay == noted' = FALSE /\ UNCHANGED <<taskList, program, booted, active, state>>
Show(t) == setActiveTask(t)

Doing(t) == at = "task" /\ state = "Running" /\ active = t /\ at' = "flags"

Idle == /\ \E t \in Task : /\ Doing(t)
                           /\ t \in DOMAIN mask \ {"graph"} => ~touch[t]
        /\ UNCHANGED <<taskList, engine, touch, typing, buttons, others>>

Handle(t) == Doing(t) /\ touch[t] /\ touch' = [touch EXCEPT ![t] = FALSE]

menu_doing(tag) ==
  /\ Handle("menu")
  /\ IF tag \in {"sliders", "keys", "graph"} THEN Show(tag)
     ELSE Stay
  /\ UNCHANGED <<typing, buttons, others>>

(* Faulty: the position is taken for the duty. *)
dutyRaw(value) == value

duty(value) == (value * 128) \div 65536

(* value is the position on the track, 16 bits. *)
sliders_doing(tag, value) ==
  /\ Handle("sliders")
  /\ IF tag = "home" THEN Show("menu")
     ELSE IF tag \in {"color", "gauge"} THEN Show("sliders")
     ELSE Stay
  /\ myData4' = IF tag = "gauge" THEN duty(value) ELSE myData4
  /\ UNCHANGED <<typing, buttons, points, show_keyboard>>

(* Faulty: backspace stays flat when another key is pressed. *)
PressKeeps(tag) == /\ keys_pressed' = IF tag \in Key THEN tag ELSE NULL
                   /\ backspace_bt_pressed' = (backspace_bt_pressed \/ tag = "backspace")
                   /\ space_bt_pressed' = (tag = "space")

Press(tag) == /\ keys_pressed' = IF tag \in Key THEN tag ELSE NULL
              /\ backspace_bt_pressed' = (tag = "backspace")
              /\ space_bt_pressed' = (tag = "space")

(* A full string takes no more characters. *)
Type(c) == IF str_curr_pos < StrSize - 2
           THEN /\ str_buff' = [str_buff EXCEPT ![str_curr_pos] = c]
                /\ str_curr_pos' = str_curr_pos + 1
                /\ typed' = Append(typed, c)
           ELSE UNCHANGED typing

Erase == IF str_curr_pos > 0
         THEN /\ str_curr_pos' = str_curr_pos - 1
              /\ typed' = Front(typed)
              /\ UNCHANGED str_buff
         ELSE UNCHANGED typing

(* Any touch repaints the keyboard, on a key or not; shift changes what    *)
(* the keys show and send.                                                 *)
keyboard_doing(tag) ==
  /\ Handle("keys")
  /\ Press(tag)
  /\ CASE tag \in Key       -> Type(tag)
       [] tag = "space"     -> Type(Blank)
       [] tag = "backspace" -> Erase
       [] OTHER             -> UNCHANGED typing
  /\ Show(IF tag \in {"cancel", "ok"} THEN "menu" ELSE "keys")
  /\ UNCHANGED others

(* The function reads and clears its flag through a pointer that was never *)
(* set: whether it acts does not depend on the flag, which stays.          *)
graph_doing(tag) ==
  /\ Doing("graph")
  /\ \/ tag = "home" /\ Show("menu") /\ UNCHANGED points
     \/ tag = "field" /\ Show("graph") /\ points' \in BOOLEAN
     \/ UNCHANGED <<taskList, engine, points>>
  /\ UNCHANGED <<touch, typing, buttons, myData4, show_keyboard>>

terminal_doing(tag) ==
  /\ Handle("terminal")
  /\ IF tag \in {"up", "down", "keyboard"} THEN Show("terminal") ELSE Stay
  /\ show_keyboard' = IF tag = "keyboard" THEN ~show_keyboard ELSE show_keyboard
  /\ UNCHANGED <<typing, buttons, myData4, points>>

Next == \/ Register \/ Begin \/ Lost
        \/ NoInterrupt
        \/ \E flags \in SUBSET Flags : Interrupt(flags)
        \/ Painting \/ WaitDrawn \/ Idle
        \/ \E tag \in {"sliders", "keys", "graph", "none"} : menu_doing(tag)
        \/ \E tag \in {"home", "color", "gauge", "none"}, value \in {0, 65535} :
             sliders_doing(tag, value)
        \/ \E tag \in Key \cup {"backspace", "shift", "space", "cancel", "ok",
                               "none"} : keyboard_doing(tag)
        \/ \E tag \in {"home", "field", "none"} : graph_doing(tag)
        \/ \E tag \in {"up", "down", "keyboard", "none"} : terminal_doing(tag)

Spec == Init /\ [][Next]_vars

-----------------------------------------------------------------------------
(* The variables keep their types; the gauge sets REG_PWM_DUTY, 0 to 128.  *)
ScreensTypeOK ==
  /\ taskListHead \in Task \cup {NULL} /\ active \in Task \cup {NULL, Garbage}
  /\ next \in [Task -> Task \cup {NULL, Garbage}]
  /\ program \in DOMAIN Programs /\ booted \in 0..4
  /\ at \in {"boot", "flags", "task"} /\ state \in {"New", "Painting", "Running"}
  /\ touch \in [DOMAIN mask -> BOOLEAN]
  /\ str_buff \in [0..StrSize-1 -> Key \cup {Blank, Cursor, NULL}]
  /\ str_curr_pos \in 0..StrSize-2 /\ keys_pressed \in Key \cup {NULL}
  /\ {stray, noted, backspace_bt_pressed, space_bt_pressed, points,
      show_keyboard} \subseteq BOOLEAN
  /\ myData4 \in 0..128

(* Unless the stack held something else than NULL, every task registered   *)
(* is found by its id, and there is always a task to run.                  *)
TaskFound ==
  ~stray => /\ \A i \in 1..booted :
                 getTask(Programs[program][i]) = Programs[program][i]
            /\ at # "boot" => active \in Tasks(program)

(* A task handles a touch only if it was read together with the end of its *)
(* screen's drawing or later: none from the screen before, and none from   *)
(* an earlier visit.                                                       *)
TouchIsFresh == state = "Running" /\ active \in DOMAIN mask /\ touch[active]
                  => noted

(* What the keyboard shows is what an editor would keep of the keys, then  *)
(* the cursor, inside the array and ended by its 0, whatever was typed     *)
(* and erased before.                                                      *)
Shown == active = "keys" /\ state # "New" =>
           LET n == Len(typed)
           IN  /\ \A i \in 1..n : str_buff[i - 1] = typed[i]
               /\ str_buff[n] = Cursor /\ str_buff[n + 1] = NULL

(* At most one key is shown flat, across repaints and visits. *)
OneLit == active = "keys" /\ state # "New" =>
            LET flat == <<keys_pressed # NULL, backspace_bt_pressed,
                          space_bt_pressed>>
            IN  \A i, j \in 1..3 : flat[i] /\ flat[j] => i = j

(* Whatever the screens show, every list is whole words, as the chip needs *)
(* it, and leaves a word of the command FIFO: a list that filled it would  *)
(* end where it begins and look executed.  Nothing in the code checks it.  *)
ListsFit == \A t \in Tasks(program) : \A n \in Lists(t) :
              n % 4 = 0 /\ n + 4 <= FifoSize
=============================================================================
