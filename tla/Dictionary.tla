----------------------------- MODULE Dictionary -----------------------------
(***************************************************************************)
(* The dictionary, wirebot.xml: what bot.c (_wb_bot_load_file and below),  *)
(* rule.c, input.c, command.c, output.c, watcher.c and service.c read of   *)
(* an XML document.                                                        *)
(*                                                                         *)
(* An element is a record of its tag, its attributes, the elements in its  *)
(* body, in order, and its text.  A document is its root element.  The     *)
(* names of messages are written without "wired." and what follows it in   *)
(* front of the last word ("say" for wired.chat.say).                      *)
(*                                                                         *)
(* Loading stops at the first element that is out of place and keeps what  *)
(* it has read so far, in bot->rules, bot->commands and bot->watchers.     *)
(***************************************************************************)
EXTENDS Naturals, Sequences
LOCAL INSTANCE SequencesExt

Element(tag, attributes, body, text) ==
  [tag |-> tag, attributes |-> attributes, body |-> body, text |-> text]

(* A file that is missing or is not XML has no root. *)
Unreadable == Element("", <<>>, <<>>, "")

Attribute(node, name, default) ==
  IF name \in DOMAIN node.attributes THEN node.attributes[name] ELSE default

Children(node, tag) == SelectSeq(node.body, LAMBDA child : child.tag = tag)

(* f of every child of node with this tag, in order. *)
Each(node, tag, f(_)) ==
  LET children == Children(node, tag) IN [i \in DOMAIN children |-> f(children[i])]

AsSet(s) == {s[i] : i \in DOMAIN s}

-----------------------------------------------------------------------------
(* The elements. *)

Comparisons == {"equals", "contains", "starts", "ends", "not equals"}

(* _wb_input_load_with_node.  What is not a comparison is WB_NOT_EQUALS. *)
InputOf(node) ==
  LET comparison == Attribute(node, "comparison", "equals") IN
    [kind       |-> Attribute(node, "message", "other"),
     comparison |-> IF comparison \in Comparisons THEN comparison ELSE "not equals",
     sensitive  |-> Attribute(node, "sensitive", "false") = "true",
     pattern    |-> node.text]

(* _wb_output_load_with_node.  An output names no message, or a board, only  *)
(* if the element does.                                                      *)
OutputOf(node) ==
  [kind   |-> Attribute(node, "message", "other"),
   text   |-> node.text,
   repeat |-> Attribute(node, "repeat", 0)]

(* _wb_rule_load_with_node, with the defaults of wb_rule_init. *)
RuleOf(node) ==
  [permissions |-> Attribute(node, "permissions", "any"),
   activated   |-> Attribute(node, "activated", "true") = "true",
   inputs      |-> AsSet(Each(node, "input", InputOf)),
   outputs     |-> AsSet(Each(node, "output", OutputOf))]

(* _wb_command_load_with_node, with the defaults of wb_command_init. *)
CommandOf(node) ==
  [name        |-> Attribute(node, "name", "help"),
   permissions |-> Attribute(node, "permissions", "any"),
   activated   |-> Attribute(node, "activated", "true") = "true",
   outputs     |-> AsSet(Each(node, "output", OutputOf))]

(* What a watcher's output does: it opens a thread on a board if it names    *)
(* one, says it on the chat, or nothing.                                     *)
PostOf(node) ==
  LET kind == Attribute(node, "message", "other") IN
    CASE kind = "add_thread" /\ "board" \in DOMAIN node.attributes -> "thread"
      [] kind = "say" -> "say"
      [] OTHER -> "none"

(* _wb_watcher_load_with_node.  A watcher, unlike a rule or a command, is    *)
(* active only if it says so; of its services the first one is asked.        *)
WatcherOf(node) ==
  [path      |-> Attribute(node, "path", ""),
   activated |-> Attribute(node, "activated", "false") = "true",
   service   |-> Children(node, "service") # <<>>,
   outputs   |-> Each(node, "output", PostOf)]

-----------------------------------------------------------------------------
(* The sections. *)

Entry == [rules |-> "rule", commands |-> "command", watchers |-> "watcher"]

(* The first element of a section that does not belong there, or none.       *)
Stray(section) ==
  IF section.tag \in DOMAIN Entry
    THEN SelectInSeq(section.body, LAMBDA child : child.tag # Entry[section.tag])
    ELSE 0

(* _wb_bot_load_rules, _wb_bot_load_commands, _wb_bot_load_watchers: the      *)
(* entries in front of it.                                                   *)
Entries(section) ==
  IF Stray(section) = 0 THEN section.body ELSE SubSeq(section.body, 1, Stray(section) - 1)

(* _wb_bot_load_wirebot: the sections up to the first with such an element.   *)
Sections(document) ==
  LET stop == SelectInSeq(document.body, LAMBDA section : Stray(section) # 0) IN
    IF document.tag # "wirebot" THEN <<>>
      ELSE SubSeq(document.body, 1, IF stop = 0 THEN Len(document.body) ELSE stop)

Loaded(document, tag) ==
  LET named == SelectSeq(Sections(document), LAMBDA section : section.tag = tag) IN
    FlattenSeq([i \in DOMAIN named |-> Entries(named[i])])

(* _wb_bot_load_file: all of the document could be read. *)
Loads(document) ==
  document.tag = "wirebot" /\ \A i \in DOMAIN document.body : Stray(document.body[i]) = 0

RulesOf(document) ==
  LET nodes == Loaded(document, "rules") IN [i \in DOMAIN nodes |-> RuleOf(nodes[i])]

CommandsOf(document) ==
  LET nodes == Loaded(document, "commands") IN [i \in DOMAIN nodes |-> CommandOf(nodes[i])]

WatchersOf(document) ==
  LET nodes == Loaded(document, "watchers") IN [i \in DOMAIN nodes |-> WatcherOf(nodes[i])]
=============================================================================
