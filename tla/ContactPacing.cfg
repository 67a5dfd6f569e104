\* One execution at a time over whole days, the default window, a two hour
\* cooldown and three contacts.
CONSTANTS
    MaxRetryAttempts = 1
    MaxContactAttempts = 3
    Executions = {e1}
    StartHour = 9
    EndHour = 21
    MinHours = 2
SPECIFICATION Spec
PROPERTIES CooldownKeptUpToRounding WrittenInsideWindow
