------------------------------ MODULE Messages ------------------------------
(***************************************************************************)
(* The JSON bodies of src/protocol.rs and src/gate.rs: what the client     *)
(* puts into a request and what serde makes of an answer.                  *)
(*                                                                         *)
(* A JSON object is a record of the fields present; serde ignores fields   *)
(* it does not know, fails on a required one that is absent and fills in   *)
(* the default of an optional one.  A field that may be null holds a set   *)
(* of at most one object.  A result that may be an error is a set of at    *)
(* most one value, and all errors are alike: their texts are left out.     *)
(* Values have the types the servers give them.                            *)
(***************************************************************************)
EXTENDS AppState, Protocol

Has(body, fields) == fields \subseteq DOMAIN body

Optional(body, field, default) == IF field \in DOMAIN body THEN body[field] ELSE default

-----------------------------------------------------------------------------
(* Requests.  my_uid is the uid the client was created with. *)

\* A text travels in an array of one item.
TextChatRequest(my_uid, to, text) == [fromuid |-> my_uid, touid |-> to, text_array |-> <<text>>]

\* The uid, being 0, is left out.
SearchRequest(name) == [name |-> name]

AddFriendRequest(my_uid, to) == [uid |-> my_uid, touid |-> to]

\* fromuid is the one who approves.
AuthFriendRequest(my_uid, from) == [fromuid |-> my_uid, touid |-> from]

-----------------------------------------------------------------------------
(* Responses. *)

UserInfo(body) ==
    IF Has(body, {"id", "name"}) THEN {[id |-> body.id, name |-> body.name]} ELSE {}

\* Client::search: what is no user is an error, whatever the envelope says.
search(body) == UserInfo(body)

\* Every field of the envelope has a default, so that any object is one.
SimpleResponse(body) == [error |-> Optional(body, "error", 0)]

is_ok(resp) == resp.error = 0

-----------------------------------------------------------------------------
(* Pushes. *)

NotifyAddFriend(body) ==
    IF Has(body, {"applyuid", "name"})
    THEN {[applyuid |-> body.applyuid, name |-> body.name]}
    ELSE {}

IncomingText(body) ==
    IF Has(body, {"fromuid", "touid", "text_array"})
    THEN {[fromuid |-> body.fromuid, text |-> body.text_array[1]]}
    ELSE {}

-----------------------------------------------------------------------------
(* The login. *)

IsLoginData(d) ==
    /\ Has(d, {"uid", "token"})
    /\ \A l \in {Optional(d, "friend_list", <<>>), Optional(d, "apply_list", <<>>)} :
          \A i \in DOMAIN l : Has(l[i], {"name"})

\* The friends and the applies of the response, as do_login hands them over.
LoginData(d) ==
    LET friends == Optional(d, "friend_list", <<>>)
        applies == Optional(d, "apply_list", <<>>)
    IN  [uid     |-> d.uid,
         friends |-> [i \in DOMAIN friends |->
                        [id |-> Optional(friends[i], "id", NoUid), name |-> friends[i].name]],
         applies |-> [i \in DOMAIN applies |->
                        [from_uid |-> Optional(applies[i], "id", NoUid),
                         name     |-> applies[i].name,
                         status   |-> Optional(applies[i], "status", 0)]]]

\* Mutant: lists that cannot be read are taken for empty ones.
login_data_lenient(frame) ==
    IF frame.id = LOGIN_RESPONSE /\ Has(frame.body, {"status"}) /\ frame.body.status = 0
    THEN {IF IsLoginData(d) THEN LoginData(d) ELSE LoginData([uid |-> d.uid, token |-> d.token]) :
             d \in Optional(frame.body, "data", {})}
    ELSE {}

\* What the first frame after the login request grants.
login_data(frame) ==
    IF frame.id = LOGIN_RESPONSE /\ Has(frame.body, {"status"}) /\ frame.body.status = 0
    THEN {LoginData(d) : d \in {x \in Optional(frame.body, "data", {}) : IsLoginData(x)}}
    ELSE {}

-----------------------------------------------------------------------------
(* The gate server's replies. *)

\* Any refusal, and a granted reply without the data asked for, is an error.
gate_data(reply, required) ==
    IF Has(reply, {"status"}) /\ reply.status = 0
    THEN {d \in Optional(reply, "data", {}) : Has(d, required)}
    ELSE {}

user_login(reply) == gate_data(reply, {"id", "user", "token", "host", "port"})
register(reply) == gate_data(reply, {})
reset_password(reply) == gate_data(reply, {})
get_verify_code(reply) == gate_data(reply, {"email"})
=============================================================================
