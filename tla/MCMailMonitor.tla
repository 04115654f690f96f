---------------------------- MODULE MCMailMonitor -----------------------------
(* MailMonitor for TLC: one mail, as main.cpp sends, and one signal.        *)
EXTENDS MailMonitor
==============================================================================
