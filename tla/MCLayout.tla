------------------------------ MODULE MCLayout ------------------------------
\* The sizes, sessions and texts that Layout_Rows explores.
EXTENDS Layout, TLC

Joined(of, ws, mores) ==
    [i \in 1 .. Len(ws) |-> [of |-> of, at |-> i, w |-> ws[i], more |-> mores[i]]]
Plain(of, ws) == Joined(of, ws, [i \in 1 .. Len(ws) |-> 0])
Narrow(of, n) == Plain(of, [i \in 1 .. n |-> 1])
Wide(of, n) == Plain(of, [i \in 1 .. n |-> 2])

\* up to three sessions with short and long names, any of them the current one
MCBars ==
    UNION { { [k \in 1 .. n |->
                 [label |-> (IF k = c THEN Narrow("*", 1) ELSE <<>>)
                               \o Narrow(ToString(k), IF k = long THEN 9 ELSE 4),
                  current |-> k = c]] : c \in 0 .. n, long \in 0 .. n } : n \in 0 .. 3 }

\* sessions whose state and directory are wide and combining characters, too; and one
\* whose directory has after its first character a symbol made an emoji by a selector,
\* and one emoji of two joined
Row(k, name, state, cwd) ==
    [id |-> Narrow("id", k), name |-> Narrow("name", name), state |-> state,
     size |-> Narrow("size", 5 + k), cwd |-> cwd]
MCRows == << Row(1, 3, Narrow("state", 8), Narrow("cwd", 7)),
             Row(5, 30, Wide("state", 8), Wide("cwd", 6)),
             Row(2, 24, Wide("state", 3), Plain("cwd", <<1, 2, 0, 2, 1, 0>>)),
             Row(3, 12, Wide("state", 3),
                 Joined("cwd", <<1, 1, 0, 2, 0, 2, 1>>, <<0, 0, 1, 0, 0, -2, 0>>)) >>
MCLists == { SubSeq(MCRows, i, j) : i \in 1 .. 4, j \in 0 .. 4 }
             \cup { MCRows \o MCRows }

MCTitle == Wide("title", 4)
MCHints == << Narrow("key", 7), Wide("or", 2), Narrow("key", 3), Wide("switch", 25) >>
MCNoSessions == Wide("none", 4)
\* a message; and the prompt, with combining characters after 8, 10, 11 and 12
\* columns: the widths below cut it at 10 and 11, too; and one with emojis
MCStatuses == { << Narrow("marks", 30) >>,
                << Narrow("rename", 5), Plain("input", <<2, 1, 0, 2, 0, 1>>),
                   Plain("help", <<0, 1, 0, 1>>) >>,
                << Narrow("rename", 5),
                   Joined("input", <<1, 1, 0, 2, 0, 2, 1>>, <<0, 0, 1, 0, 0, -2, 0>>),
                   Narrow("help", 4) >> }

MCNames == {"space", "[qscn]", "*", "1", "2", "3", "id", "name", "state", "size", "cwd",
            "title", "key", "or", "switch", "none", "marks", "rename", "input", "help"}

\* narrower and wider than the header, than a label, than all of them; and
\* around the width of a row's fixed columns
MCWidths == {1, 5, 6, 7, 10, 11, 13, 15, 19, 20, 22, 58, 59, 60, 61, 66}
=============================================================================
