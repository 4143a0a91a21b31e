---------------------------- MODULE MCAttachments -----------------------------
(* Two editing intents of one subject and two requests at the same time.    *)
EXTENDS Attachments, TLC

MCSymmetry == Permutations(Intents) \cup Permutations(Tasks)
===============================================================================
