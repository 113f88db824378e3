------------------------------- MODULE Wired --------------------------------
(***************************************************************************)
(* The Wired protocol as far as the bot takes part in it: the specification *)
(* in wired.xml.h, which libwired checks every message against, and the     *)
(* fields the bot fills in and reads.  Names are written without "wired."   *)
(* in front; wired.transaction, which every message may have, is left out.  *)
(***************************************************************************)
EXTENDS Sequences, TLC

-----------------------------------------------------------------------------
(* The fields a message must have. *)

HostInfo == {"info.application.name", "info.application.version", "info.application.build",
             "info.os.name", "info.os.version", "info.arch", "info.supports_rsrc"}
ServerInfo == {"info.name", "info.description", "info.banner", "info.downloads",
               "info.uploads", "info.download_speed", "info.upload_speed"}
UserInfo == {"user.id", "user.idle", "user.nick", "user.status", "user.icon"}
FileInfo == {"file.path", "file.type", "file.creation_time", "file.modification_time",
             "file.link", "file.executable", "file.label", "file.volume"}

SessionFields ==
  "okay" :> {} @@ "error" :> {"error"} @@ "banned" :> {}
    @@ "client_info" :> HostInfo
    @@ "server_info" :> HostInfo \cup ServerInfo
                          \cup {"info.start_time", "info.files.count", "info.files.size"}
    @@ "send_ping" :> {} @@ "ping" :> {}
    @@ "send_login" :> {"user.login", "user.password"}
    @@ "login" :> {"user.id"}

UserFields ==
  "user.set_nick" :> {"user.nick"} @@ "user.set_status" :> {"user.status"}
    @@ "user.set_icon" :> {"user.icon"} @@ "user.set_idle" :> {"user.idle"}
    @@ "user.get_info" :> {"user.id"}
    @@ "user.info" :> UserInfo \cup {"user.login", "user.ip", "user.host",
                                     "user.login_time", "user.idle_time"}

(* Who is on a chat. *)
ChatFields ==
  "chat.join_chat" :> {"chat.id"}
    @@ "chat.user_list" :> {"chat.id"} \cup UserInfo @@ "chat.user_list.done" :> {"chat.id"}
    @@ "chat.user_join" :> {"chat.id"} \cup UserInfo
    @@ "chat.user_leave" :> {"chat.id", "user.id"}
    @@ "chat.user_status" :> {"chat.id", "user.id", "user.idle", "user.nick", "user.status"}
    @@ "chat.user_icon" :> {"chat.id", "user.id", "user.icon"}
    @@ "chat.user_disconnect" :> {"chat.id", "user.disconnected_id", "user.disconnect_message"}
    @@ "chat.user_kick" :> {"chat.id", "user.id", "user.disconnected_id",
                            "user.disconnect_message"}
    @@ "chat.user_ban" :> {"chat.id", "user.disconnected_id", "user.disconnect_message"}

(* What is said on it, and private chats. *)
TalkFields ==
  "chat.topic" :> {"chat.id", "user.nick", "chat.topic.topic", "chat.topic.time"}
    @@ "chat.send_say" :> {"chat.id", "chat.say"}
    @@ "chat.say" :> {"chat.id", "user.id", "chat.say"}
    @@ "chat.send_me" :> {"chat.id", "chat.me"}
    @@ "chat.me" :> {"chat.id", "user.id", "chat.me"}
    @@ "chat.create_chat" :> {} @@ "chat.chat_created" :> {"chat.id"}
    @@ "chat.invite_user" :> {"chat.id", "user.id"}
    @@ "chat.invitation" :> {"chat.id", "user.id"}
    @@ "chat.user_decline_invitation" :> {"chat.id", "user.id"}

MessageFields ==
  "message.send_message" :> {"user.id", "message.message"}
    @@ "message.message" :> {"user.id", "message.message"}
    @@ "message.send_broadcast" :> {"message.broadcast"}
    @@ "message.broadcast" :> {"user.id", "message.broadcast"}

BoardFields == "board.add_thread" :> {"board.board", "board.subject", "board.text"}

ListFields == "file.list_directory" :> {"file.path"} @@ "file.file_list" :> FileInfo
                @@ "file.file_list.done" :> {"file.path", "file.available"}

MoveFields   == "file.move" :> {"file.path", "file.new_path"}
DeleteFields == "file.delete" :> {"file.path"}

DirectoryFields ==
  [m \in {"file.subscribe_directory", "file.unsubscribe_directory",
          "file.directory_changed", "file.directory_deleted"} |-> {"file.path"}]

(* account.privileges, whose fields are left out, stands for itself and for  *)
(* what is told about boards, accounts and the log: the bot handles none.    *)
PrivilegeFields == "account.privileges" :> {}

Required ==
  SessionFields @@ UserFields @@ ChatFields @@ TalkFields @@ MessageFields @@ BoardFields
    @@ ListFields @@ MoveFields @@ DeleteFields @@ DirectoryFields @@ PrivilegeFields

-----------------------------------------------------------------------------
(* The transactions: what may be answered.  A list of none or more is none  *)
(* or one, one of one or more is one.                                       *)

OkayOrError == {<<"okay">>, <<"error">>}

SessionAnswers ==
  "client_info" :> {<<"server_info">>} @@ "send_ping" :> {<<"ping">>}
    @@ "send_login" :> {<<"login", "account.privileges">>, <<"error">>, <<"banned">>}

UserAnswers ==
  [m \in {"user.set_nick", "user.set_status", "user.set_icon", "user.set_idle"} |-> OkayOrError]
    @@ "user.get_info" :> {<<"user.info">>, <<"error">>}

JoinAnswers ==
  "chat.join_chat" :> {<<"chat.user_list", "chat.user_list.done">>,
                       <<"chat.user_list", "chat.user_list.done", "chat.topic">>,
                       <<"error">>}

TalkAnswers ==
  [m \in {"chat.send_say", "chat.send_me", "chat.invite_user"} |-> OkayOrError]
    @@ "chat.create_chat" :> {<<"chat.chat_created">>, <<"error">>}

MessageAnswers ==
  [m \in {"message.send_message", "message.send_broadcast"} |-> OkayOrError]

BoardAnswers == "board.add_thread" :> OkayOrError

ListAnswers == "file.list_directory" :> {<<"file.file_list.done">>,
                                         <<"file.file_list", "file.file_list.done">>,
                                         <<"error">>}

MoveAnswers      == "file.move" :> OkayOrError
DeleteAnswers    == "file.delete" :> OkayOrError
DirectoryAnswers ==
  [m \in {"file.subscribe_directory", "file.unsubscribe_directory"} |-> OkayOrError]

Answers ==
  SessionAnswers @@ UserAnswers @@ JoinAnswers @@ TalkAnswers @@ MessageAnswers
    @@ BoardAnswers @@ ListAnswers @@ MoveAnswers @@ DeleteAnswers @@ DirectoryAnswers

(* What the server takes before client_info, and before the login.  Later   *)
(* it takes everything.                                                     *)
BeforeGreeting == {"client_info"}
BeforeLogin    == {"client_info", "send_ping", "send_login",
                   "user.set_nick", "user.set_status", "user.set_icon"}

(* What the server sends unasked; a topic, when somebody sets it. *)
Broadcasts ==
  {"server_info", "chat.user_join", "chat.user_leave", "chat.user_status", "chat.user_icon",
   "chat.user_disconnect", "chat.user_kick", "chat.user_ban", "chat.say", "chat.me",
   "chat.user_decline_invitation", "chat.invitation", "chat.topic", "message.message",
   "message.broadcast", "file.directory_changed", "file.directory_deleted",
   "account.privileges"}

-----------------------------------------------------------------------------
(* The fields the bot fills in. *)

LoginRequests ==
  "client_info" :> HostInfo @@ "user.set_nick" :> {"user.nick"}
    @@ "user.set_status" :> {"user.status"} @@ "user.set_icon" :> {"user.icon"}
    @@ "send_login" :> {"user.login", "user.password"}

(* Of the commands an answer of the dictionary may be. *)
TalkRequests ==
  "message.send_broadcast" :> {"message.broadcast"}
    @@ "user.get_info" :> {"user.id"}
    @@ "chat.send_me" :> {"chat.id", "chat.me"}
    @@ "message.send_message" :> {"user.id", "message.message"}
    @@ "chat.create_chat" :> {}
    @@ "chat.send_say" :> {"chat.id", "chat.say"}

IdleRequests == "user.set_idle" :> {"user.idle"}

FileRequests ==
  "file.list_directory" :> {"file.path"}
    @@ "file.move" :> {"file.path", "file.new_path"}
    @@ "file.delete" :> {"file.path"}
    @@ "file.subscribe_directory" :> {"file.path"}
    @@ "file.unsubscribe_directory" :> {"file.path"}

ThreadRequests == "board.add_thread" :> {"board.board", "board.subject", "board.text"}

ChatRequests ==
  "chat.join_chat" :> {"chat.id"} @@ "chat.invite_user" :> {"chat.id", "user.id"}

PingRequests == "send_ping" :> {} @@ "ping" :> {}

Filled ==
  LoginRequests @@ TalkRequests @@ IdleRequests @@ FileRequests @@ ThreadRequests
    @@ ChatRequests @@ PingRequests

-----------------------------------------------------------------------------
(* The fields the handlers read without looking whether they are there.     *)
(* wr_message_user_info prints before it reads one.                        *)

ListUses == [m \in {"chat.user_list", "chat.user_join"} |->
              {"chat.id", "user.id", "user.idle", "user.admin", "account.color",
               "user.nick", "user.status"}]

ChatUses ==
  "chat.user_leave" :> {"chat.id", "user.id"}
    @@ "chat.user_status" :> {"user.id", "user.idle", "user.admin", "user.nick", "user.status"}
    @@ "chat.user_list.done" :> {"chat.id"}
    @@ "chat.topic" :> {"chat.id", "user.nick", "chat.topic.topic", "chat.topic.time"}
    @@ "chat.chat_created" :> {"chat.id"}
    @@ [m \in {"chat.invitation", "chat.user_decline_invitation"} |-> {"chat.id", "user.id"}]

TalkUses ==
  "chat.say" :> {"chat.id", "user.id", "chat.say"}
    @@ "chat.me" :> {"chat.id", "user.id", "chat.me"}
    @@ "message.message" :> {"user.id", "message.message"}
    @@ "message.broadcast" :> {"user.id"}

FileUses ==
  [m \in {"file.file_list", "file.file_list.done", "file.directory_changed"} |-> {"file.path"}]

ServerUses ==
  "server_info" :> {"info.application.build", "info.files.count", "info.files.size",
                    "info.name", "info.description", "info.start_time",
                    "info.application.name", "info.application.version",
                    "info.os.name", "info.os.version", "info.arch"}

ReplyUses == "error" :> {"error", "error.string"} @@ "login" :> {"user.id"}

Uses == ListUses @@ ChatUses @@ TalkUses @@ FileUses @@ ServerUses @@ ReplyUses

(* What only a window would show, and the text of an error that is logged:  *)
(* the specification requires none of them, and does not know user.admin.   *)
Ornaments == {"user.admin", "account.color", "error.string"}
=============================================================================
