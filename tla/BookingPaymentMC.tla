-------------------------- MODULE BookingPaymentMC --------------------------
(***************************************************************************)
(* Small instances of BookingPayment for TLC.                              *)
(***************************************************************************)
EXTENDS BookingPayment, TLC

\* A guest's checkout: sessions, callbacks and crashes while the office
\* converts the bookings.
CheckoutOps == {"open", "stripe", "getpayin", "convert", "crash"}

\* What the office, the partner site and the guest do with a booking, while
\* it is paid.
BookingOps == {"partner", "convert", "office", "adminCancel", "guestCancel",
               "amend", "clock", "crash", "open", "stripe"}

\* Slots are interchangeable.
Slots == Permutations(Requests)
=============================================================================
