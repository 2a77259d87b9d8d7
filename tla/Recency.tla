------------------------------- MODULE Recency -------------------------------
(***************************************************************************)
(* A recency order as a value: a sequence of distinct frames, the most     *)
(* recently used first.  The last frame is the next one to replace.        *)
(***************************************************************************)
EXTENDS Naturals, Sequences, SequencesExt

\* The order without f, or the order itself when f is not in it
Forgotten(s, f) ==
  IF f \in ToSet(s) THEN RemoveAt(s, CHOOSE i \in DOMAIN s : s[i] = f) ELSE s

\* A bug: a frame that is in the order is there twice
TouchedTwice(s, f) == <<f>> \o s

\* f becomes the most recently used frame, whether it was in the order or not
Touched(s, f) == <<f>> \o Forgotten(s, f)
=============================================================================
