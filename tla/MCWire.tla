------------------------------- MODULE MCWire -------------------------------
(* Instances of Wire for TLC. *)
EXTENDS Wire

LOCAL D == INSTANCE Dictionary

CONSTANTS a, b

(* The watcher of wirebot.xml: a thread on a board and a line on the chat.  *)
Watcher ==
  D!WatcherOf(D!Element("watcher", [path |-> "/Uploads", activated |-> "true"],
    <<D!Element("service", [name |-> "OMDB"], <<>>, ""),
      D!Element("output", [message |-> "add_thread", board |-> "Movies"], <<>>, "new"),
      D!Element("output", [message |-> "add_thread"], <<>>, "no board"),
      D!Element("output", [message |-> "say"], <<>>, "new")>>, ""))

Announced == Watcher.outputs
Served    == Watcher.service

AandB == {<<a, b>>}

FewNews == {"chat.say", "file.directory_changed", "chat.invitation"}
FewSaid == {"user.set_idle", "chat.create_chat", "user.get_info"}

(* All answers to the greeting, the nick and the login, and otherwise one.   *)
FewReplies ==
  [n \in DOMAIN Answers |->
    CASE n \in {"client_info", "user.set_nick", "send_login"} -> Answers[n]
      [] n = "chat.join_chat"      -> {<<"chat.user_list", "chat.user_list.done">>}
      [] n = "file.list_directory" -> {<<"file.file_list.done">>}
      [] n = "chat.create_chat"    -> {<<"chat.chat_created">>}
      [] n = "user.get_info"       -> {<<"user.info">>}
      [] n = "send_ping"           -> {<<"ping">>}
      [] OTHER                     -> {<<"okay">>}]
=============================================================================
