------------------------------- MODULE MCStaging -------------------------------
\* Trees of up to four entries on one file system, and what may be in their way.
EXTENDS Staging

P(text) == [k \in 1 .. Len(text) |-> <<text[k]>>]

Base == P(<<"p">>) :> Dir @@ P(<<"o">>) :> Dir

\* A tree with a subdirectory, a flat one, and one below the root.  The depths differ.
Deep(parent) ==
  P(<<parent>>) :> Dir
    @@ P(<<parent, "s">>) :> Dir @@ P(<<parent, "s", "a">>) :> File(1, 1)
    @@ P(<<parent, "s", "d">>) :> Dir @@ P(<<parent, "s", "d", "a">>) :> File(2, 2)
Flat ==
  P(<<"p", "u">>) :> Dir
    @@ P(<<"p", "u", "t">>) :> Dir @@ P(<<"p", "u", "t", "a">>) :> File(3, 1)
Low == P(<<"r">>) :> Dir @@ P(<<"r", "d">>) :> Dir @@ P(<<"r", "d", "a">>) :> File(4, 1)

\* Old files of the same size and of another, and one where a directory has to be.
Old(text, size) ==
  P(<<"o", "s">>) :> Dir @@ P(text) :> File(IF size = 0 THEN 0 ELSE 5, size)

\* Links to nothing in the way, one that files can be created behind and one that they
\* cannot, and one where the report goes.
Links ==
  P(<<"o", "s">>) :> Dir @@ P(<<"o", "s", "d">>) :> Dir
    @@ P(<<"o", "s", "a">>) :> Dangling @@ P(<<"o", "s", "d", "a">>) :> Broken
    @@ P(<<"o", "report">>) :> Dangling

\* Two trees; one below the root and the root as a destination; a tree's own parent as
\* the destination; old files; an empty file and a link with a file behind it; a link to
\* nothing in the second of two trees, and a socket; links to nothing at the destinations;
\* a source that is no directory; a file whose copy hangs.
MCFileSystems ==
  { Base @@ Deep("p") @@ Flat,
    Base @@ Flat @@ Low @@ (<<>> :> Dir),
    Base @@ Deep("q"),
    Base @@ Deep("p") @@ Old(<<"o", "s", "a">>, 1),
    Base @@ Deep("p") @@ Old(<<"o", "s", "a">>, 3),
    Base @@ Deep("p") @@ Old(<<"o", "s", "d">>, 1),
    Base @@ (P(<<"p", "s", "a">>) :> File(0, 0)) @@ (P(<<"p", "s", "d">>) :> Link)
      @@ Deep("p"),
    Base @@ (P(<<"p", "u", "t", "b">>) :> Dangling) @@ Flat @@ Low,
    Base @@ (P(<<"p", "u", "t", "b">>) :> Other) @@ Flat,
    Base @@ Deep("p") @@ Links,
    Base @@ (P(<<"r">>) :> File(4, 1)),
    Base @@ Deep("p") @@ Old(<<"o", "s", "a">>, 0),
    Base @@ (P(<<"p", "s", "d", "a">>) :> File(6, 4)) @@ Deep("p") }

MCSources == {P(<<"p", "s">>), P(<<"q", "s">>), P(<<"p", "u", "t">>), P(<<"r">>)}
MCDestinations == {P(<<"o">>), P(<<"q">>), <<>>}
MCWorkingDir == P(<<"p">>)
MCReport == <<"report">>
MCHangingSizes == {4}
===============================================================================
