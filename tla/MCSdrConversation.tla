------------------------- MODULE MCSdrConversation -------------------------
(* Small instances of a conversation.                                       *)
EXTENDS SdrConversationProps

Calm == [msgs |-> 2, people |-> 0, errors |-> 0, restarts |-> 0, parts |-> 1]

MCMixes ==
    {[Calm EXCEPT !.parts = 2],
     [Calm EXCEPT !.msgs = 1, !.people = 1, !.parts = 2],
     [Calm EXCEPT !.errors = 1],
     [Calm EXCEPT !.restarts = 1],
     [Calm EXCEPT !.msgs = 1, !.errors = 2, !.parts = 2],
     [Calm EXCEPT !.msgs = 1, !.errors = 1, !.restarts = 1, !.parts = 2]}
=============================================================================
