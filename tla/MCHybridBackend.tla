--------------------------- MODULE MCHybridBackend --------------------------
(***************************************************************************)
(* Instances of HybridBackend for TLC.                                     *)
(***************************************************************************)
EXTENDS HybridBackend

Document(s, m, fixed, p) ==
  [smbus |-> s, meta |-> m, static |-> fixed, power |-> p]

\* Two cards.  A full document, one whose second card fell silent and that
\* lacks static fields, one without the SMBUS block, one with nothing but
\* SMBUS, and unparseable output.
TwoCards == {0, 1}
TwoCardDocs ==
  { Document({0, 1}, {0, 1}, {0, 1}, {0, 1}),
    Document({0}, {0}, {}, {0}),
    Document({}, {0, 1}, {0}, {1}),
    Document({1}, {}, {}, {}),
    EmptyDoc }

\* One card: everything, metadata only, SMBUS only, unparseable output.
OneCard == {0}
OneCardDocs ==
  { Document({0}, {0}, {0}, {0}),
    Document({}, {0}, {0}, {0}),
    Document({0}, {}, {}, {}),
    EmptyDoc }
=============================================================================
