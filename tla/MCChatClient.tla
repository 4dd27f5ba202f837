----------------------------- MODULE MCChatClient -----------------------------
EXTENDS ChatClient

(* Two chat windows and a client of `colay run`. *)
MCKind == [c1 |-> "chat", c2 |-> "chat", r |-> "run"]

==============================================================================
