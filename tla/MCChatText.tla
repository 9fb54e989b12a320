----------------------------- MODULE MCChatText -----------------------------
(* The handlers are interchangeable, and no property is a temporal one. *)
EXTENDS ChatText, TLC

AnyOrder == Permutations(Handlers)
=============================================================================
