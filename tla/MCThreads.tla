----------------------------- MODULE MCThreads -----------------------------
(* Two conferences and the mailbox, with small trees of comments.          *)
EXTENDS Threads

CONSTANTS c1, c2

MCOrder == << c1, c2 >>

Top == Text(Mailbox, 0)
Of(n) == Text(c1, n)

(* A chain, and a text on its own before a comment; a fourth text makes    *)
(* the forks.  The text of the second conference is a comment moved there. *)
MCBoards ==
  {[c \in {Mailbox, c1, c2} |-> CASE c = Mailbox -> << >> [] c = c1 -> t [] c = c2 -> << Of(1) >>] :
     t \in { << Top, Of(1), Of(2) >>, << Top, Top, Of(1) >> }}

(* Along trees, over everything unread, and back again.                    *)
MCMenus == { {"next_text", "next_comment", "read_text", "jump_over", "jump_tree", "goto_text",
              "unread_tree", "delete", "post"},
             {"next_text", "next_comment", "sweep", "unreadsub", "only", "readall", "delete", "post"},
             {"next_text", "next_comment", "next_conf", "change_conf", "back_text", "unsubscribe",
              "comment", "delete"},
             {"next_text", "change_conf", "unsubscribe", "unread_text",
              "reclaim_unread", "delete"} }

MCLimit == [c \in {Mailbox, c1, c2} |-> CASE c = Mailbox -> 0 [] c = c1 -> 4 [] c = c2 -> 1]

MCMatch   == { Text(c1, 2) }
MCBlocked == { Of(3) }
=============================================================================
