------------------------------- MODULE RestFota -------------------------------
(***************************************************************************)
(* The REST FOTA sample (nrf_cloud_rest_fota/src/main.c).  main asks the   *)
(* cloud for update jobs over and over, with a token that is valid for     *)
(* five minutes; a job may take longer.  One button means three things,    *)
(* and the semaphore it gives does not say which.  The FOTA poll library   *)
(* and the cloud are external; the library keeps a pending job over the    *)
(* reboot that installs it.                                                *)
(***************************************************************************)
EXTENDS Naturals

CONSTANT MaxBoots     \* bound: reboots

ASSUME BootsAssumption == MaxBoots \in Nat

VARIABLES
    jitp,        \* CONFIG_REST_FOTA_DO_JITP
    at,          \* where main is
    press,       \* button_press_sem: "none", or where main was at the press
    meant,       \* history: the presses taken for the prompt and the association
    requested,   \* jitp_requested
    lte,         \* [on, sem]: lte_connected is the semaphore
    token,       \* "none", "valid", "expired"
    socket,      \* rest_ctx.connect_socket is open
    again,       \* a job of this round has ended, another one is asked for
    pending,     \* a job is to be completed after the reboot
    boots

connection == <<lte, token, socket>>
restVars == <<jitp, at, press, meant, requested, connection, again, pending, boots>>

RestInit ==
    /\ jitp \in BOOLEAN
    /\ at = "init" /\ press = "none" /\ requested = FALSE
    /\ meant = [prompt |-> "none", association |-> "none"]
    /\ lte = [on |-> FALSE, sem |-> FALSE] /\ token = "none" /\ socket = FALSE
    /\ again = FALSE /\ pending = FALSE /\ boots = 0

(* main returns, or sleeps for ever without credentials.                   *)
Ended == at' = "ended"

(* dk_buttons_init comes late in init: no press before it is seen.  A      *)
(* press while the semaphore is still given adds nothing.                  *)
button_handler ==
    /\ at # "init" /\ press = "none"
    /\ press' = at
    /\ UNCHANGED <<jitp, at, meant, requested, connection, again, pending, boots>>

(* init: a pending job is completed first, with a reboot where one is      *)
(* needed; the prompt appears when there was none.                         *)
init ==
    /\ at = "init"
    /\ \/ Ended /\ UNCHANGED pending
       \/ pending /\ at' = "rebooting" /\ pending' \in BOOLEAN
       \/ /\ at' = IF jitp /\ ~pending THEN "prompt" ELSE "check"
          /\ UNCHANGED pending
    /\ UNCHANGED <<jitp, press, meant, requested, connection, again, boots>>

(* Mutant: what the semaphore holds is kept.                               *)
PressKept == press' = press

(* k_sem_reset                                                             *)
PressForgotten == press' = "none"

Prompt ==
    /\ at = "prompt"
    /\ PressForgotten
    /\ at' = "asked"
    /\ UNCHANGED <<jitp, meant, requested, connection, again, pending, boots>>

(* A press within ten seconds, or none.                                    *)
request_jitp ==
    /\ at = "asked"
    /\ requested' = (press # "none")
    /\ press' = "none" /\ meant' = [meant EXCEPT !.prompt = press]
    /\ at' = "check"
    /\ UNCHANGED <<jitp, connection, again, pending, boots>>

check_credentials ==
    /\ at = "check"
    /\ Ended \/ at' = "connect"
    /\ UNCHANGED <<jitp, press, meant, requested, connection, again, pending, boots>>

connect_to_network ==
    /\ at = "connect"
    /\ \/ Ended /\ lte' = [lte EXCEPT !.sem = FALSE]
       \/ at' = "await" /\ lte' = [on |-> TRUE, sem |-> FALSE]
    /\ UNCHANGED <<jitp, press, meant, requested, token, socket, again, pending, boots>>

lte_handler ==
    /\ lte.on
    /\ lte' = [lte EXCEPT !.sem = TRUE]
    /\ UNCHANGED <<jitp, at, press, meant, requested, token, socket, again, pending, boots>>

LteConnected ==
    /\ at = "await" /\ lte.sem
    /\ lte' = [lte EXCEPT !.sem = FALSE]
    /\ at' = "time"
    /\ UNCHANGED <<jitp, press, meant, requested, token, socket, again, pending, boots>>

(* The modem is asked every three seconds until it knows the time.         *)
modem_time_wait ==
    /\ at = "time"
    /\ at' = IF requested THEN "jitp" ELSE "status"
    /\ UNCHANGED <<jitp, press, meant, requested, connection, again, pending, boots>>

(* do_jitp: provisioned, and the user is asked to associate the device; or *)
(* not needed; or failed.                                                  *)
do_jitp ==
    /\ at = "jitp"
    /\ \/ at' = "associate" /\ PressForgotten
       \/ at' = "status" /\ UNCHANGED press
    /\ UNCHANGED <<jitp, meant, requested, connection, again, pending, boots>>

Associated ==
    /\ at = "associate" /\ press # "none"
    /\ press' = "none" /\ meant' = [meant EXCEPT !.association = press]
    /\ at' = "status"
    /\ UNCHANGED <<jitp, requested, connection, again, pending, boots>>

(* A failure is only reported; the call opens a connection to be kept.     *)
send_device_status ==
    /\ at = "status"
    /\ \/ UNCHANGED <<token, socket>>
       \/ token' = "valid" /\ socket' \in {socket, TRUE}
    /\ at' = "round"
    /\ UNCHANGED <<jitp, press, meant, requested, lte, again, pending, boots>>

generate_jwt ==
    /\ at = "round"
    /\ again' = FALSE
    /\ \/ token' = "valid" /\ at' = "poll"
       \/ at' = "rebooting" /\ UNCHANGED token
    /\ UNCHANGED <<jitp, press, meant, requested, lte, socket, pending, boots>>

(* nrf_cloud_fota_poll_process blocks; meanwhile the token grows old.      *)
StartPoll ==
    /\ at = "poll"
    /\ at' = IF token = "valid" THEN "processing" ELSE "refused"
    /\ socket' = TRUE
    /\ UNCHANGED <<jitp, press, meant, requested, lte, token, again, pending, boots>>

TokenExpires ==
    /\ token = "valid" /\ at \in {"processing", "wait"} \cup (IF again THEN {"poll"} ELSE {})
    /\ token' = "expired"
    /\ UNCHANGED <<jitp, at, press, meant, requested, lte, socket, again, pending, boots>>

(* Mutant: every answer is a reason to ask again.                          *)
AskedAgain(err) ==
    IF err \in {"ENOTRECOVERABLE", "reboot"} THEN "rebooting" ELSE "poll"

(* A job that has ended or failed is followed by the question for another; *)
(* an error nothing recovers from, and a job to be installed, reboot.      *)
AfterPoll(err) ==
    CASE err \in {"ENOTRECOVERABLE", "reboot"} -> "rebooting"
      [] err \in {"ENOENT", "EFAULT"} -> "poll"
      [] OTHER -> "wait"

(* The cloud has jobs only for those who come with a valid token.          *)
Answers == {"ENOTRECOVERABLE", "EAGAIN"} \cup
           (IF at = "processing" THEN {"ENOENT", "EFAULT", "reboot"} ELSE {})

EndPoll ==
    /\ at \in {"processing", "refused"}
    /\ \E err \in Answers :
          /\ at' = AfterPoll(err)
          /\ again' = (at' = "poll")
          /\ pending' = (err = "reboot" \/ (pending /\ err # "ENOENT"))
          /\ socket' = (at' # "wait")
    /\ UNCHANGED <<jitp, press, meant, requested, lte, token, boots>>

(* The wait ends with the button, or with the time.                        *)
WaitForRound ==
    /\ at = "wait"
    /\ at' = "round" /\ press' = "none"
    /\ UNCHANGED <<jitp, meant, requested, connection, again, pending, boots>>

(* Everything in RAM is lost; the library's settings stay.                 *)
sample_reboot ==
    /\ at = "rebooting" /\ boots < MaxBoots
    /\ boots' = boots + 1
    /\ at' = "init" /\ press' = "none" /\ requested' = FALSE
    /\ meant' = [prompt |-> "none", association |-> "none"]
    /\ lte' = [on |-> FALSE, sem |-> FALSE] /\ token' = "none" /\ socket' = FALSE
    /\ again' = FALSE
    /\ UNCHANGED <<jitp, pending>>

Main ==
    \/ init \/ Prompt \/ request_jitp \/ check_credentials
    \/ connect_to_network \/ LteConnected \/ modem_time_wait
    \/ do_jitp \/ Associated \/ send_device_status
    \/ generate_jwt \/ StartPoll \/ EndPoll \/ WaitForRound
    \/ sample_reboot

RestNext == Main \/ button_handler \/ lte_handler \/ TokenExpires

(* main runs: the wait has a time limit, and so have the calls of the      *)
(* library; five minutes pass.                                             *)
RestFairness == WF_restVars(Main) /\ WF_restVars(TokenExpires)

RestSpec == RestInit /\ [][RestNext]_restVars /\ RestFairness

-----------------------------------------------------------------------------

(* A press is taken for the answer to a question only when it was made     *)
(* after the question: provisioning is not requested by an earlier press,  *)
(* nor the association taken for done by an impatient second one           *)
(* (request_jitp, do_jitp).                                                *)
PressAnswersQuestion ==
    meant.prompt \in {"none", "asked"} /\ meant.association \in {"none", "associate"}

(* A round comes to an end: a cloud that has job after job, or refuses the *)
(* token, does not keep main from waiting and starting afresh, or from     *)
(* rebooting (the inner loop of main).                                     *)
RoundsEnd == at \in {"poll", "processing", "refused"} ~> at \in {"round", "rebooting"}
=============================================================================
