---------------------------- MODULE MCWebServer ----------------------------
(* An instance of WebServer for TLC. *)
EXTENDS WebServer

Editing    == {"page", "rows", "form"}
Reloading  == {"page", "rows", "load", "breaks"}
Outages    == {"page", "net", "press"}
Metering   == {"traffic"}
Guessing   == {"login"}
Expiring   == {"page", "wall", "restart"}
Refusing   == {"page", "breaks", "query"}
All        == {Editing, Reloading, Outages, Metering, Guessing, Expiring, Refusing}
=============================================================================
