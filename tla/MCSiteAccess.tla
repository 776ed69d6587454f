----------------------------- MODULE MCSiteAccess -----------------------------
(* The entry and security pages for TLC. *)
EXTENDS SiteAccess

Single(on, twoFactor) == Registered(None, FALSE, on, twoFactor)
Backup(verified, on) == Registered("b", verified, on, TRUE)
By(op, email) == [Request(op) EXCEPT !.email = email]
For(op, slot, email) == [Request(op) EXCEPT !.slot = slot, !.email = email]

MCVisits ==
  {Visit(NoUser, "index", {"registerModal"}, "registerSubmit", By("register", "a")),
   Visit(Single(FALSE, FALSE), "index", {"loginModal"}, "loginSubmit", By("login", "a")),
   Visit(Single(FALSE, TRUE), "index", {"loginModal"}, "loginSubmit", By("login", "a")),
   Visit(Backup(TRUE, TRUE), "index", {"loginModal"}, "loginSubmit", By("login", "b")),
   Visit(Backup(FALSE, TRUE), "forgot", {}, "forgotSend", By("forgot_send", "a")),
   Visit(Single(FALSE, TRUE), "new_password", {}, "newPassword",
         [Request("new_password") EXCEPT !.code = 1]),
   Visit(Single(FALSE, TRUE), "security", {}, "totpEnable", Request("totp_start")),
   Visit(Single(TRUE, TRUE), "security", {}, "totpDisable",
         [Request("totp_disable") EXCEPT !.totp = 1]),
   Visit(Single(TRUE, TRUE), "security", {}, "confirm2", For("email_send", 2, "b")),
   Visit(Backup(FALSE, FALSE), "security", {}, "confirm2", For("email_send", 2, "b")),
   Visit(Backup(TRUE, FALSE), "security", {}, "passwordSend", For("password_send", 2, None))}
=============================================================================
