----------------------------- MODULE MCPlaylist -----------------------------
(***************************************************************************)
(* An instance of Playlist.  One repeat mode has the steps of all: the     *)
(* modes only choose among them, and a user goes round in every mode.      *)
(***************************************************************************)
EXTENDS Playlist

StopAtEnd == {"None"}
=============================================================================
