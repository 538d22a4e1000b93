------------------------------ MODULE MCScreen ------------------------------
(* The instances of Screen that TLC explores. *)
EXTENDS Screen

Characters == {"combining", "narrow", "wide"}

\* every way to change the cells of a line, on a screen whose width changes
Cells == [ops |-> Characters \cup {"move", "erase", "shift", "resize"},
          sizes |-> <<<<2, 3>>, <<2, 2>>>>]

\* lines move in and around a scroll region
Regions == [ops |-> {"narrow", "wide", "lines", "region", "cup", "move"},
            sizes |-> <<<<3, 2>>>>]

\* heights change below a scroll region and a saved cursor
Heights == [ops |-> {"lines", "region", "cup", "save", "resize"},
            sizes |-> <<<<3, 2>>, <<2, 2>>, <<4, 2>>>>]

\* the two grids
Alternate == [ops |-> {"narrow", "cup", "alt", "save", "region"},
              sizes |-> <<<<2, 1>>>>]

AlternateSizes == [ops |-> {"narrow", "alt", "resize"},
                   sizes |-> <<<<2, 2>>, <<3, 2>>>>]

\* a wide character where there is one column
OneColumn == [ops |-> {"combining", "narrow", "wide", "save", "shift", "erase", "resize"},
              sizes |-> <<<<2, 1>>, <<2, 2>>>>]

SafeInstances == {Cells, Regions, Heights, Alternate, AlternateSizes, OneColumn}
=============================================================================
