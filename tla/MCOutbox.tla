-------------------------------- MODULE MCOutbox --------------------------------
(***************************************************************************)
(* A small instance of Outbox: two processes, two recipients.              *)
(***************************************************************************)
EXTENDS Outbox

CONSTANTS p, q, alice, bob

\* The second problem comes or goes from one cycle to the next.
MCBatches == {{"error"}, {"error", "warning"}}

\* A relay on the machine or not, with TLS or without; and a user or none.
MCMails == [tls : {"none"}, user : {TRUE}, local : BOOLEAN]
             \cup [tls : {"none"}, user : {FALSE}, local : {FALSE}]
             \cup [tls : {"starttls"}, user : {TRUE}, local : {TRUE}]
             \cup [tls : {"implicit"}, user : {TRUE}, local : {FALSE}]
================================================================================
