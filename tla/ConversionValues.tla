-------------------------- MODULE ConversionValues --------------------------
(***************************************************************************)
(* Values shared by the conversion models.  A field is "" (unset) or a    *)
(* member of Values; a Go pointer is a sequence, Nil or Some(x); the       *)
(* annotation utilconversion.MarshalData writes is NoAnn or Some(hub).     *)
(***************************************************************************)
CONSTANT Values

Nil == <<>>
Some(x) == <<x>>
NoAnn == Nil

V == Values \cup {""}
Opt(S) == {Nil} \cup {Some(x) : x \in S}

\* The restore of a pointer field: only when the annotation's value is set
\* ("if restored.X != nil { dst.X = restored.X }").
RestoreIfSet(dstVal, restoredVal) ==
    IF restoredVal # Nil THEN restoredVal ELSE dstVal
=============================================================================
