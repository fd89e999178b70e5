----------------------------- MODULE MCComposer -----------------------------
\* Two sessions, two images and one text; and catalogues of up to three models, over two
\* levels of effort, with menus of up to three options.
EXTENDS ModelControls, TLC

CONSTANTS s1, s2, i1, i2, t1
\* A race that was met stays in clashes, and nothing is claimed from there on.
NoRaceYet == clashes = {}
SymmetryDef == Permutations({s1, s2}) \cup Permutations({i1, i2})

TwoEfforts == <<"low", "high">>
CataloguesDef ==
  LET Levels == {SelectSeq(TwoEfforts, LAMBDA e : e \in s) : s \in SUBSET {"low", "high"}}
      Named(id) == [id : {id}, known : {TRUE}, efforts : Levels]
                   \cup [id : {id}, known : {FALSE}, efforts : {<<>>}]
  IN {<<>>} \cup {<<m>> : m \in Named(Default) \cup Named("opus")}
     \cup {<<d, m, n>> : d \in Named(Default), m \in Named("opus"), n \in Named("haiku")}
     \cup {<<m, n>> : m \in Named("opus"), n \in Named("haiku")}

Values == <<"a", "b", "c">>
MenusDef ==
  UNION {{[i \in 1..n |-> [value |-> Values[i], disabled |-> off[i]]] : off \in [1..n -> BOOLEAN]} : n \in 1..3}
=============================================================================
