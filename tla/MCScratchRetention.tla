------------------------ MODULE MCScratchRetention ------------------------
(* A small instance of ScratchRetention for TLC. *)
EXTENDS ScratchRetention, TLC

MCOrgs == 1..2
MCOrgOf == ("i" :> 2)
MCIntents == DOMAIN MCOrgOf
MCAbout == ("q" :> "i")
MCQuestions == DOMAIN MCAbout
=============================================================================
