----------------------------- MODULE TaskRecord -----------------------------
(***************************************************************************)
(* What the todo and memo conduits make of a task or memo for the PDA, and  *)
(* of a PDA record for evolution-data-server                                 *)
(* (conduits/evolution-data-server/todo-conduit.c and memo-conduit.c).       *)
(***************************************************************************)
EXTENDS RecordTexts, Naturals, Sequences

CONSTANT DefaultPriority   \* the setting of the todo conduit: 1 .. 5
ASSUME PriorityAssumption == DefaultPriority \in 1 .. 5

PlainTask == [summary |-> "a", note |-> "none", due |-> 0, status |-> "needs action",
              percent |-> 0, priority |-> 0, class |-> "public"]
PlainTodo == [description |-> "a", note |-> "none", indefinite |-> TRUE, due |-> 0,
              complete |-> FALSE, priority |-> 1, secret |-> FALSE]

(* 0 stands for a task that is not due.                                     *)
Tasks ==
  [summary: Texts, note: Texts, due: Nat,
   status: {"needs action", "in process", "completed", "cancelled"},
   percent: 0 .. 100, priority: 0 .. 9, class: {"public", "private", "confidential"}]
Todos ==
  {r \in [description: Texts, note: Texts, indefinite: BOOLEAN, due: Nat,
          complete: BOOLEAN, priority: 1 .. 5, secret: BOOLEAN] : r.indefinite <=> r.due = 0}

(* local_record_from_comp: of a record the PDA has, only the category stays.*)
PriorityForPdaAsItIs(priority) == IF priority = 0 THEN DefaultPriority ELSE priority
PriorityForPda(priority) ==
  CASE priority = 0 -> DefaultPriority
    [] priority \in 1 .. 3 -> 1
    [] priority = 4 -> 2
    [] priority = 5 -> 3
    [] priority \in 6 .. 7 -> 4
    [] OTHER -> 5

ToTodo(comp) ==
  [description |-> comp.summary,
   note |-> comp.note,
   indefinite |-> comp.due = 0,
   due |-> comp.due,
   complete |-> comp.status = "completed",
   priority |-> PriorityForPda(comp.priority),
   secret |-> comp.class = "private"]

(* comp_from_remote_record                                                  *)
PriorityForDesktop(priority) ==
  CASE priority = 1 -> 3
    [] priority \in {2, 3} -> 5
    [] priority = 4 -> 7
    [] OTHER -> 9

(* A record without a note resets the comments: the description stays.      *)
FromTodo(todo, comp) ==
  [summary |-> todo.description,
   note |-> IF todo.note = "none" THEN comp.note ELSE todo.note,
   due |-> IF todo.indefinite THEN 0 ELSE todo.due,
   status |-> IF todo.complete THEN "completed"
              ELSE IF comp.status = "completed" THEN "needs action" ELSE comp.status,
   percent |-> IF todo.complete THEN 100
               ELSE IF comp.percent = 100 THEN 0 ELSE comp.percent,
   priority |-> PriorityForDesktop(todo.priority),
   class |-> IF todo.secret THEN "private" ELSE "public"]

---------------------------------------------------------------------------
(* A memo is a text on the PDA; on the desktop its first line, or as much of*)
(* it as goes into 50 characters, is the summary.  A text is its lines.     *)
PlainMemo == [summary |-> "a", text |-> <<"a">>, class |-> "public"]
PlainNote == [text |-> <<"a">>, secret |-> FALSE]

Memos ==
  [summary: Texts, text: Seq(Texts), class: {"public", "private", "confidential"}]
Notes == [text: Seq(Texts), secret: BOOLEAN]

ToMemo(comp) == [text |-> comp.text, secret |-> comp.class = "private"]

(* Names of long lines, and what is left of them.                           *)
Shortened(line) == IF line = "long" THEN "long..." ELSE line
FromMemo(memo, comp) ==
  [summary |-> IF memo.text = <<>> THEN "none" ELSE Shortened(memo.text[1]),
   text |-> memo.text,
   class |-> IF memo.secret THEN "private" ELSE "public"]
=============================================================================
