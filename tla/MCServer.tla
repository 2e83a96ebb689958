----------------------------- MODULE MCServer -----------------------------
(* Two acceptances of one server and a page, with the requests of the page *)
(* itself, of a command line, and some that admission refuses.             *)
EXTENDS Server

MCRequest ==
  { [host |-> "loopback", origin |-> "self", site |-> "same-origin", token |-> TRUE],
    [host |-> "loopback", origin |-> "none", site |-> "none", token |-> TRUE],
    [host |-> "other", origin |-> "none", site |-> "none", token |-> TRUE],
    [host |-> "loopback", origin |-> "other", site |-> "cross-site", token |-> FALSE] }
===========================================================================
