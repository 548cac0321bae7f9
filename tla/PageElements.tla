---------------------------- MODULE PageElements ----------------------------
(***************************************************************************)
(* The elements of a page, as the DOM has them.  A document is a record:   *)
(* the parent, the classes and the words of every element, and the page's  *)
(* path.  Element 1 is <html>; an element outside the document has parent  *)
(* 0, as <html> has.                                                       *)
(***************************************************************************)
EXTENDS Naturals

Html == 1

Elements(doc) == DOMAIN doc.parent

\* An element and all those below it: the least set that has it and, with an
\* element, its children.
Subtree(doc, top) ==
  {e \in Elements(doc) : \A S \in SUBSET Elements(doc) :
     top \in S /\ (\A d \in Elements(doc) : doc.parent[d] \in S => d \in S) => e \in S}

InDocument(doc, e) == e \in Subtree(doc, Html)

=============================================================================
