------------------------------ MODULE Protocol ------------------------------
(***************************************************************************)
(* The message ids of src/protocol.rs that the running client exchanges    *)
(* with the chat server, and which of them go together.                    *)
(***************************************************************************)
LOGIN_RESPONSE == 1006
SEARCH_RESPONSE == 1008
ADD_FRIEND_RESPONSE == 1010
NOTIFY_ADD_FRIEND == 1011
AUTH_FRIEND_RESPONSE == 1014
NOTIFY_AUTH_FRIEND == 1015
TEXT_CHAT_RESPONSE == 1018
NOTIFY_TEXT_CHAT == 1019

\* The envelope the server sends for a request it does not understand.
INVALID_REQUEST == 1500

\* The variants of NetCmd.
Kind == {"SendText", "Search", "AddFriend", "ApproveApply"}

\* The id of the response each command waits for.
ResponseId ==
    [kind \in Kind |->
        CASE kind = "SendText"     -> TEXT_CHAT_RESPONSE
          [] kind = "Search"       -> SEARCH_RESPONSE
          [] kind = "AddFriend"    -> ADD_FRIEND_RESPONSE
          [] kind = "ApproveApply" -> AUTH_FRIEND_RESPONSE]

\* The ids handle_push does not ignore.
PushId == {NOTIFY_ADD_FRIEND, NOTIFY_AUTH_FRIEND, NOTIFY_TEXT_CHAT}

\* Every id that can arrive after the login.
IncomingId == PushId \cup {ResponseId[kind] : kind \in Kind} \cup {INVALID_REQUEST}
=============================================================================
