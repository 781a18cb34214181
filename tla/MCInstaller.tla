----------------------------- MODULE MCInstaller -----------------------------
EXTENDS Installer
MCLibraries == <<"libc++_shared.so", "libfmodex.so", "libfmodevent.so", "libNimble.so", "libapp.so">>
=============================================================================
