---------------------------- MODULE MCOperatorInbox ----------------------------
(* A finite instance of OperatorInbox for TLC. *)
EXTENDS OperatorInbox, TLC

\* Owner o and operators p, q of client a; user f of client b.
MCUserClient == [u \in Users |-> IF u = "f" THEN "b" ELSE "a"]
MCRole == [u \in Users |-> IF u \in {"o", "f"} THEN "owner" ELSE "operator"]
MCConvClient == [c \in Convs |-> "a"]
MCCanon == ("vip" :> "vip" @@ "VIP " :> "vip" @@ "new" :> "new" @@ "hot" :> "hot"
            @@ " " :> "")

MCInitialConvs ==
    {[c \in Convs |-> [mode |-> IF c = 1 THEN m ELSE "human", status |-> "open",
                      assigned |-> IF c = 1 THEN a ELSE Nobody, tags |-> <<>>, last |-> 0, seen |-> 0]] :
       m \in Modes, a \in {Nobody, "p"}}

MCCalls ==
    [op : {"send"}, user : {"p"}, conv : {1}, arg : {"k1", "k2"}]
      \cup [op : {"mode"}, user : {"o"}, conv : {1}, arg : Modes]
      \cup [op : {"status"}, user : {"o"}, conv : {1}, arg : {"open", "closed"}]
      \cup [op : {"assign"}, user : {"p"}, conv : {1}, arg : {"p", "q", Nobody}]
      \cup [op : {"assign"}, user : {"o"}, conv : {1}, arg : {"q", "x", "f"}]
      \cup [op : {"tags"}, user : {"p"}, conv : {1},
            arg : {<<"VIP ", "vip", " ">>, <<"vip", "new", "hot">>}]
      \cup [op : {"read", "unread"}, user : {"p"}, conv : {1}, arg : {Nobody}]
      \cup [op : {"send", "mode"}, user : {"f"}, conv : {1}, arg : {"human"}]
================================================================================
