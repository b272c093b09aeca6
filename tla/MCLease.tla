------------------------------ MODULE MCLease ------------------------------
(* TLC instance of Lease.  One unit of time is five seconds: TTL 12, Interval 6
   and RefreshTimeout 2 are the code's 60, 30 and 10 seconds.                *)
EXTENDS Lease
=============================================================================
