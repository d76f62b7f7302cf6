------------------------------ MODULE MCDesktop ------------------------------
EXTENDS Desktop

MCWindows == {"dialog", "assistant", "tool", "installer", "tray"}

(* get_system_info, set_user, revive and install of gpilotd-client          *)
MCCommands ==
  {<<GetSystemInfo("tool"), GetUserInfo("tool")>>,
   <<SetUserInfo(2, FALSE, "tool")>>,
   <<SetUserInfo(1, TRUE, "tool"), Restore("tool")>>,
   <<InstallFile("tool")>>}

=============================================================================
