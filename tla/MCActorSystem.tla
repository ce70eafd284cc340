--------------------------- MODULE MCActorSystem ---------------------------
(* Instances of ActorSystem for TLC. *)
EXTENDS ActorSystem, TLC

(* Two of the orders in which unordered_map may list the four actors: down *)
(* the pipeline, and against it.                                           *)
Downstream == <<"message", "chat", "storage", "session">>
Upstream == <<"session", "storage", "chat", "message">>

Message(s, r, u) ==
  [type |-> "send_message", session |-> s, recipient |-> r, uuids |-> u]

Signal(t) ==
  [type |-> t, session |-> 1, recipient |-> NoSession, uuids |-> TRUE]

(* One client that sends valid and invalid messages and other frames. *)
OneClient ==
  {Message(1, 1, TRUE), Message(1, NoSession, FALSE)}
  \cup {Signal(t) : t \in {"auth", "message_read", "other", "mistyped"}}

(* Two clients that write to each other, to themselves and to nobody. *)
Conversation == {Message(1, 2, TRUE), Message(2, 1, TRUE), Message(1, 1, TRUE),
                 Message(2, NoSession, FALSE)}

(* The same with frames in between that are no messages. *)
Interrupted == Conversation \cup {Signal(t) : t \in {"typing", "not_object"}}

(* One client that writes to itself: echo and copy meet in one session. *)
Monologue == {Message(1, 1, TRUE)}

WorkerSymmetry == Permutations(Workers)
============================================================================
