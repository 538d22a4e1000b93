------------------------------- MODULE MCView -------------------------------
\* Plans for View: children that use the alternate screen, the mouse and the
\* cursor shape against few events from outside, and many events against
\* children that write little.
EXTENDS View

Plan(output, hs, es, n) ==
    [script |-> output, heights |-> hs, events |-> es, left |-> n]

MCPlans ==
    { Plan(<<Text(3, 1), Control("mouse"), Text(1, 2), Control("nomouse")>>,
           {2, 3, 4}, {"poll", "other"}, 1),
      Plan(<<Control("smcup"), Control("shape1"), Control("shape2"), Control("rmcup")>>,
           {3}, {"poll", "exit"}, 2),
      Plan(<<Text(1, 1), Text(3, 2)>>, {2, 4}, {"poll", "resize"}, 3),
      Plan(<<Text(2, 1)>>, {2, 5}, {"key", "help", "resize"}, 3),
      Plan(<<Text(3, 1), Text(2, 2)>>, {2, 4}, {"key", "other", "resize"}, 2),
      Plan(<<Control("smcup"), Text(1, 1)>>, {3}, {"poll", "exit", "cut"}, 2),
      Plan(<<>>, {3}, {"key", "help", "list", "switch", "detach", "focus", "exit"}, 4) }
=============================================================================
