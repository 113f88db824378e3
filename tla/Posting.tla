------------------------------ MODULE Posting -------------------------------
(***************************************************************************)
(* How new files are announced: wb_watcher_execute_output of watcher.c and *)
(* the lookup of service.c.                                                *)
(*                                                                         *)
(* Every output of the watcher is executed for every new file in turn, on  *)
(* the main thread.  If the watcher has a service, a web service is asked  *)
(* for the title that is read from the name of the file, once for every    *)
(* output, and the main thread waits for it.  What it answers is kept in   *)
(* the one object of the service until the output has used it.             *)
(***************************************************************************)
EXTENDS Sequences, SequencesExt

CONSTANTS
  Files,
  NoText,      \* service->text is NULL
  Outputs,     \* what the outputs of the watcher do: "thread", "say" or "none"
  HasService,  \* the watcher has a service
  Nameless,    \* files no title can be read from
  Titles       \* files whose title the web service knows

ASSUME FilesAssumption == NoText \notin Files
ASSUME OutputsAssumption == Outputs \in Seq({"thread", "say", "none"})
ASSUME ServiceAssumption == HasService \in BOOLEAN

VARIABLES
  todo,    \* the outputs still to be executed, each with its file
  phase,   \* of the first of them: "ready", "asked" or "told"
  text,    \* service->text, by the file it is about
  posted   \* the threads that were opened: the file, and the one the text is about

postingVars == <<todo, phase, text, posted>>

Job  == [file : Files, kind : {"thread", "say", "none"}]
Post == [file : Files, about : Files]

PostingInit ==
  /\ todo = <<>>
  /\ phase = "ready"
  /\ text = NoText
  /\ posted = {}

(* wb_watcher_files_diff, with the new files in order. *)
JobsOf(new) ==
  FlattenSeq([i \in DOMAIN new |->
               [j \in DOMAIN Outputs |-> [file |-> new[i], kind |-> Outputs[j]]]])

LooksUp(job) == HasService /\ job.file \notin Nameless

(* wb_service_execute, up to the request. *)
Ask ==
  /\ todo # <<>> /\ phase = "ready"
  /\ LooksUp(Head(todo))
  /\ phase' = "asked"
  /\ UNCHANGED <<todo, text, posted>>

(* The answer, or an error: a title that is not known, and a request that    *)
(* fails, leave the text as it was.                                          *)
Told ==
  /\ phase = "asked"
  /\ phase' = "told"
  /\ \/ Head(todo).file \in Titles /\ text' = Head(todo).file
     \/ UNCHANGED text
  /\ UNCHANGED <<todo, posted>>

Due(kind) ==
  /\ todo # <<>>
  /\ phase = IF LooksUp(Head(todo)) THEN "told" ELSE "ready"
  /\ Head(todo).kind = kind

(* What a thread about a file says: without an answer, its name and path.    *)
About(file) == IF HasService /\ text # NoText THEN text ELSE file

\* A slip: the service is not cleaned up.
NextJobDirty ==
  /\ todo' = Tail(todo)
  /\ phase' = "ready"
  /\ UNCHANGED text

(* wb_service_cleanup, and on to the next output. *)
NextJob ==
  /\ todo' = Tail(todo)
  /\ phase' = "ready"
  /\ text' = NoText

OpenThread ==
  /\ Due("thread")
  /\ posted' = posted \cup {[file |-> Head(todo).file, about |-> About(Head(todo).file)]}
  /\ NextJob

(* It is said on the chat, or there is nothing to do with it. *)
SayIt == Due("say") /\ NextJob /\ UNCHANGED posted
Pass  == Due("none") /\ NextJob /\ UNCHANGED posted

(* The text of a thread is about the file it was opened for, however many    *)
(* files and outputs share the one object of the service, and whichever      *)
(* lookups fail (service->text, wb_service_cleanup).                         *)
PostsAreOwn == \A p \in posted : p.about = p.file
=============================================================================
