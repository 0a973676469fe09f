------------------------------- MODULE MCPlay -------------------------------
(* The situations of Play for TLC.                                         *)
EXTENDS Play

Of(pages, rounds, modules, counts, lost, died) ==
  [pages |-> pages, spins |-> rounds, modules |-> modules, counts |-> counts, breaks |-> lost, crashes |-> died]

\* One page and every bonus module; the connection may break.
OnePage == Of(1, 2, {"wheel", "pick", "freeSpins"}, {}, 1, 0)

\* Autoplay runs that end after a round and that go on to the next.
Autoplay == Of(1, 2, {"wheel"}, {1, 2}, 0, 0)

\* The page is left for another one in the middle of a round.
Reload == Of(2, 2, {"pick"}, {}, 0, 0)

\* game-socket dies and comes back.
Restart == Of(1, 2, {"pick"}, {1}, 0, 1)

Situations == {OnePage, Autoplay, Reload, Restart}
=============================================================================
