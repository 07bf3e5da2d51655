------------------------------ MODULE MCLoader ------------------------------
EXTENDS Loader, TLC

Image(b, n, m) == [base |-> b, size |-> n, needs |-> m]

\* The programs; the preferred base of the last is where the heap begins.
Apart ==
    "shell.exe"  :> Image(20, 2, {"ntdll.dll"}) @@
    "hello3.exe" :> Image(40, 2, {"ntdll.dll"}) @@
    "winapp.exe" :> Image(30, 2, {"kernel32.dll"})
OnHeap == Apart @@ "m17child.exe" :> Image(10, 1, {})

Blobs ==
    "ntdll.dll"    :> Image(60, 2, {}) @@
    "kernel32.dll" :> Image(50, 1, {}) @@
    "extra.dll"    :> Image(70, 1, {})

\* The shell, then each program in the way that loads the DLL it imports.
Shell == {<<"launch", "shell.exe">>}
Fitting == Shell \cup {<<"create", "hello3.exe">>, <<"winexec", "winapp.exe">>}
Other == Fitting \cup {<<"create", "winapp.exe">>}
Background == Shell \cup {<<"bg", "hello3.exe">>}
Child == Shell \cup {<<"create", "m17child.exe">>}
=============================================================================
