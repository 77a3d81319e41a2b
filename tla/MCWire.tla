------------------------------- MODULE MCWire -------------------------------
(* One message of every type, with strings of different lengths.           *)
EXTENDS Wire

M(type, args) == [type |-> type, args |-> args]

MCInfo ==
  [last_action_time |-> 7, last_action_status |-> 1, last_action_name |-> <<9, 8>>,
   last_signal_time |-> 6, last_signal_status |-> 0, last_signal_name |-> 15,
   buddy_pid |-> 5000, proc_pid |-> 5001, current_state |-> 2, prior_state |-> 1,
   n_recorded_restarts |-> 3]

MCMessages ==
  {M("req_preamble", [min_supported_ver |-> 0, max_supported_ver |-> 0,
                      client_name |-> <<7, 7, 5>>]),
   M("req_seq_start", [msg_seq_type |-> 4, msg_seq_count |-> 2]),
   M("req_seq_end", [commit |-> 1]),
   M("req_action", [svc_id |-> <<3>>, action |-> <<4, 5>>]),
   M("req_signal", [signal |-> 15, signal_sid |-> 0, signal_pgrp |-> 1, svc_id |-> <<3, 3>>]),
   M("req_list", <<>>),
   M("req_status", [svc_id |-> <<3>>, restart_window_seconds |-> 60]),
   M("req_subscribe", [all_svcs |-> 1, svc_id |-> <<>>]),
   M("req_unsubscribe", [all_svcs |-> 0, svc_id |-> <<3>>]),
   M("req_disconnect", <<>>),
   M("repl_preamble", [best_version |-> 0]),
   M("repl_seq_start", [msg_seq_type |-> 4100, msg_seq_count |-> 0]),
   M("repl_seq_end", [commit |-> 0]),
   M("repl_result", [successful |-> 1, msg |-> <<6>>]),
   M("repl_listing", [svc_id |-> <<3, 4>>]),
   M("repl_svcinfo", [svc_id |-> <<3>>, svcinfo |-> MCInfo]),
   M("repl_ack", <<>>),
   M("repl_error", [errlevel |-> 3, uerrno |-> 2, msg |-> <<6, 6>>, svc_id |-> <<3>>]),
   M("pub_publication", <<>>),
   M("pub_cancelation", <<>>)}

MCFollowers ==
  {m \in MCMessages : m.type \in {"req_list", "req_action", "repl_seq_start", "repl_result"}}
=============================================================================
