------------------------- MODULE ConfigurationProofs -------------------------
(***************************************************************************)
(* The inductive invariant IInv of Configuration and what follows from it, *)
(* for every set of cameras and settings, every earlier file, and any      *)
(* number of saves, starts, failures and power failures.                   *)
(***************************************************************************)
EXTENDS Configuration, TLAPS

LEMMA CameraExists == SomeCamera \in Cameras
BY CamerasAssumption DEF SomeCamera

LEMMA EmptyIsConfiguration ==
    /\ Empty \in ScannerConfiguration /\ UniqueRoles(Empty)
    /\ \A c \in Cameras : Empty[c].settings = Default
BY SettingsAssumption
   DEF Empty, ScannerConfiguration, CameraConfiguration, UniqueRoles

LEMMA LoadType ==
    ASSUME NEW content \in Contents
    PROVE  Load(content) \in ScannerConfiguration
BY EmptyIsConfiguration DEF Load, Contents

LEMMA ConfigurationType ==
    ASSUME NEW c \in ScannerConfiguration, NEW x \in Cameras
    PROVE  c[x].settings \in Settings /\ c[x].position \in Sides \cup {Nowhere}
BY DEF ScannerConfiguration, CameraConfiguration

\* A configuration is a file's content and no other.
LEMMA LoadOfConfiguration ==
    ASSUME NEW c \in ScannerConfiguration
    PROVE  c \in Contents /\ Load(c) = c /\ c # Absent /\ c # Torn
BY NamesAssumption DEF Contents, Load

\* with_camera_settings changes the settings of one camera and no position.
LEMMA WithSettingsLemma ==
    ASSUME NEW c \in ScannerConfiguration, NEW camera \in Cameras, NEW choice \in Settings
    PROVE  LET d == WithCameraSettings(c, camera, choice)
           IN /\ d \in ScannerConfiguration
              /\ \A x \in Cameras : /\ d[x].position = c[x].position
                                    /\ d[x].settings = IF x = camera THEN choice
                                                       ELSE c[x].settings
              /\ UniqueRoles(c) => UniqueRoles(d)
BY DEF WithCameraSettings, ScannerConfiguration, CameraConfiguration, UniqueRoles

\* with_camera_positions gives the two cameras their sides, no other camera a side,
\* and keeps all settings.
LEMMA WithPositionsLemma ==
    ASSUME NEW c \in ScannerConfiguration, NEW roles \in [Sides -> Cameras],
           roles["even"] # roles["odd"]
    PROVE  LET d == WithCameraPositions(c, roles)
           IN /\ d \in ScannerConfiguration
              /\ \A x \in Cameras : d[x].settings = c[x].settings
              /\ \A s \in Sides : d[roles[s]].position = s
              /\ UniqueRoles(d)
BY NamesAssumption
   DEF WithCameraPositions, ScannerConfiguration, CameraConfiguration, UniqueRoles,
       Sides

\* Any two cameras of a configuration with unique roles get one side each, and each
\* the one it has, whatever their order.
LEMMA AssignmentLemma ==
    ASSUME NEW c \in ScannerConfiguration, UniqueRoles(c),
           NEW first \in Cameras, NEW second \in Cameras, first # second
    PROVE  LET p == AssignCameraPair(c, first, second)
           IN /\ ~Conflict(c, first, second)
              /\ p \in [Sides -> Cameras]
              /\ p["even"] # p["odd"]
              /\ \A s \in Sides : c[p[s]].position \in {s, Nowhere}
<1>1. /\ c[first].position \in {"even", "odd", Nowhere}
      /\ c[second].position \in {"even", "odd", Nowhere}
  BY ConfigurationType DEF Sides
<1>2. ~Conflict(c, first, second)
  BY DEF Conflict, UniqueRoles
<1> QED
  BY <1>1, <1>2, NamesAssumption DEF AssignCameraPair, Conflict, Sides

\* What a running operation saves, in terms of the configuration and the session.
LEMMA UpdatedLemma ==
    ASSUME IInv, pc # "idle"
    PROVE  /\ pair \in [Sides -> Cameras] /\ pair["even"] # pair["odd"]
           /\ operation = "swap_cameras" =>
                 /\ \A c \in Cameras : updated[c].settings = configuration[c].settings
                 /\ \A s \in Sides : updated[pair[s]].position = s
           /\ operation = "configure_camera" =>
                 \A c \in Cameras :
                    /\ updated[c].position = configuration[c].position
                    /\ updated[c].settings = IF c = target THEN settings[c]
                                             ELSE configuration[c].settings
<1>1. pair \in [Sides -> Cameras] /\ pair["even"] # pair["odd"]
  BY DEF IInv, TypeOK, ProcessInv, RolesInv
<1>2. CASE operation = "swap_cameras"
  <2>1. updated = WithCameraPositions(configuration, pair) /\ configuration \in ScannerConfiguration
    BY <1>2 DEF IInv, RolesInv, TypeOK
  <2> QED
    BY <1>1, <1>2, <2>1, WithPositionsLemma
<1>3. CASE operation = "configure_camera"
  <2>1. /\ updated = WithCameraSettings(configuration, target, settings[target])
        /\ configuration \in ScannerConfiguration /\ target \in Cameras
        /\ settings[target] \in Settings
    BY <1>3 DEF IInv, SettingsInv, TypeOK
  <2> QED
    BY <1>1, <1>3, <2>1, WithSettingsLemma
<1> QED
  BY <1>1, <1>2, <1>3

LEMMA InitIInv == ASSUME Init PROVE IInv
<1>1. TypeOK
  <2>1. (file \in Contents \cup {Torn} /\ onDisk \in SUBSET (Contents \cup {Torn}))
    BY EmptyIsConfiguration, CameraExists, SettingsAssumption, BoundsAssumption,
       FilesAssumption DEF Init, Contents, Sides
  <2>2. (temporary \in Contents \cup {Torn} /\ backup \in Contents \cup {Torn})
    BY DEF Init, Contents, Sides
  <2>3. (/\ flushed \in SUBSET {"temporary", "backup"}
          /\ backup_created \in BOOLEAN /\ published \in BOOLEAN /\ failed \in BOOLEAN)
    BY DEF Init, Sides
  <2>4. (pc \in Locations /\ operation \in {"none", "configure_camera", "swap_cameras"})
    BY DEF Init, Locations, Sides
  <2>5. (target \in Cameras /\ previous \in Settings /\ updated \in ScannerConfiguration)
    BY EmptyIsConfiguration, CameraExists, SettingsAssumption, BoundsAssumption,
       FilesAssumption DEF Init, Sides
  <2>6. (outcome \in {"none", "running", "saved", "failed"} /\ diverged \in BOOLEAN)
    BY DEF Init, Sides
  <2>7. (configuration \in ScannerConfiguration)
    BY EmptyIsConfiguration, CameraExists, SettingsAssumption, BoundsAssumption,
       FilesAssumption DEF Init, Sides
  <2>8. (pair \in [Sides -> Cameras])
    BY EmptyIsConfiguration, CameraExists, SettingsAssumption, BoundsAssumption,
       FilesAssumption DEF Init, Sides
  <2>9. (settings \in [Cameras -> Settings] /\ applied \in [Cameras -> Settings])
    BY EmptyIsConfiguration, CameraExists, SettingsAssumption, BoundsAssumption,
       FilesAssumption DEF Init, Sides
  <2>10. (state \in SessionStates /\ saves \in 0..MaxSaves /\ starts \in 0..MaxStarts)
    BY EmptyIsConfiguration, CameraExists, SettingsAssumption, BoundsAssumption,
       FilesAssumption DEF Init, SessionStates, Sides
  <2> QED
    BY <2>1, <2>2, <2>3, <2>4, <2>5, <2>6, <2>7, <2>8, <2>9, <2>10 DEF TypeOK
<1>2. ProcessInv
  BY DEF Init, ProcessInv, Operational, SessionStates, Sides
<1>3. DiskInv
  BY EmptyIsConfiguration, CameraExists, LoadType, SettingsAssumption,
     BoundsAssumption, FilesAssumption, NamesAssumption
     DEF Init, DiskInv, Contents, Sides
<1>4. SaveInv
  BY DEF Init, SaveInv, Sides
<1>5. BackupInv
  BY DEF Init, BackupInv, Contents, Sides, Load, UniqueRoles
<1>6. ObjectInv
  BY DEF Init, ObjectInv, Operational, SessionStates, Sides, Load, Old
<1>7. UniqueInv
  BY EmptyIsConfiguration, CameraExists, LoadType, SettingsAssumption,
     BoundsAssumption, FilesAssumption, NamesAssumption
     DEF Init, UniqueInv, Sides, Load, UniqueRoles
<1>8. SettingsInv
  BY DEF Init, SettingsInv, Operational, SessionStates, Sides, InPair
<1>9. RolesInv
  BY DEF Init, RolesInv, Operational, SessionStates, Sides, Other
<1>10. ScansAsConfigured
  BY DEF Init, ScansAsConfigured, Sides, InPair
<1>11. AlwaysAssignable
  BY DEF Init, AlwaysAssignable, Sides
<1> QED
  BY <1>1, <1>2, <1>3, <1>4, <1>5, <1>6, <1>7, <1>8, <1>9, <1>10, <1>11 DEF IInv

LEMMA WriteTemporaryStep ==
    ASSUME IInv, WriteTemporary
    PROVE  IInv'
<1> USE DEF IInv
<1>1. TypeOK'
  <2>1. (file \in Contents \cup {Torn} /\ onDisk \in SUBSET (Contents \cup {Torn}))'
    BY DEF WriteTemporary, TypeOK, Contents, Locations, SessionStates, Sides, Raise,
           disk, call, session, bounds, idle
  <2>2. (temporary \in Contents \cup {Torn} /\ backup \in Contents \cup {Torn})'
    BY DEF WriteTemporary, TypeOK, Contents, Locations, SessionStates, Sides, Raise,
           disk, call, session, bounds, idle
  <2>3. (/\ flushed \in SUBSET {"temporary", "backup"}
          /\ backup_created \in BOOLEAN /\ published \in BOOLEAN /\ failed \in BOOLEAN)'
    BY DEF WriteTemporary, TypeOK, Contents, Locations, SessionStates, Sides, Raise,
           disk, call, session, bounds, idle
  <2>4. (pc \in Locations /\ operation \in {"none", "configure_camera", "swap_cameras"})'
    BY DEF WriteTemporary, TypeOK, Contents, Locations, SessionStates, Sides, Raise,
           disk, call, session, bounds, idle
  <2>5. (target \in Cameras /\ previous \in Settings /\ updated \in ScannerConfiguration)'
    BY DEF WriteTemporary, TypeOK, Contents, Locations, SessionStates, Sides, Raise,
           disk, call, session, bounds, idle
  <2>6. (outcome \in {"none", "running", "saved", "failed"} /\ diverged \in BOOLEAN)'
    BY DEF WriteTemporary, TypeOK, Contents, Locations, SessionStates, Sides, Raise,
           disk, call, session, bounds, idle
  <2>7. (configuration \in ScannerConfiguration)'
    BY DEF WriteTemporary, TypeOK, Contents, Locations, SessionStates, Sides, Raise,
           disk, call, session, bounds, idle
  <2>8. (pair \in [Sides -> Cameras])'
    BY DEF WriteTemporary, TypeOK, Contents, Locations, SessionStates, Sides, Raise,
           disk, call, session, bounds, idle
  <2>9. (settings \in [Cameras -> Settings] /\ applied \in [Cameras -> Settings])'
    BY DEF WriteTemporary, TypeOK, Contents, Locations, SessionStates, Sides, Raise,
           disk, call, session, bounds, idle
  <2>10. (state \in SessionStates /\ saves \in 0..MaxSaves /\ starts \in 0..MaxStarts)'
    BY DEF WriteTemporary, TypeOK, Contents, Locations, SessionStates, Sides, Raise,
           disk, call, session, bounds, idle
  <2> QED
    BY <2>1, <2>2, <2>3, <2>4, <2>5, <2>6, <2>7, <2>8, <2>9, <2>10
       DEF TypeOK, Contents
<1>2. ProcessInv'
  BY DEF WriteTemporary, ProcessInv, Operational, SessionStates, Raise, disk, call,
         session, bounds, idle
<1>3. DiskInv'
  BY DEF WriteTemporary, DiskInv, Contents, Raise, disk, call, session, bounds
<1>4. SaveInv'
  BY DEF WriteTemporary, SaveInv, Raise, disk, call, session, bounds
<1>5. BackupInv'
  BY LoadOfConfiguration, LoadType
     DEF WriteTemporary, BackupInv, TypeOK, ProcessInv, SaveInv, DiskInv, UniqueInv,
         Operational, Contents, Locations, SessionStates, Sides, Raise, disk, call,
         session, bounds, idle
<1>6. ObjectInv'
  BY DEF WriteTemporary, ObjectInv, Old, Load, Operational, SessionStates, Raise,
         disk, call, session, bounds, idle
<1>7. UniqueInv'
  BY DEF WriteTemporary, UniqueInv, Load, Raise, disk, call, session, bounds
<1>8. SettingsInv'
  BY DEF WriteTemporary, SettingsInv, Operational, SessionStates, Sides, InPair,
         Raise, disk, call, session, bounds, idle
<1>9. RolesInv'
  BY DEF WriteTemporary, RolesInv, Operational, SessionStates, Sides, Other, Raise,
         disk, call, session, bounds, idle
<1>10. ScansAsConfigured'
  BY DEF WriteTemporary, ScansAsConfigured, Sides, InPair, Raise, disk, call,
         session, bounds
<1>11. AlwaysAssignable'
  BY DEF WriteTemporary, AlwaysAssignable, Raise, disk, call, session, bounds
<1> QED
  BY <1>1, <1>2, <1>3, <1>4, <1>5, <1>6, <1>7, <1>8, <1>9, <1>10, <1>11

LEMMA CopyBackupStep ==
    ASSUME IInv, CopyBackup
    PROVE  IInv'
<1> USE DEF IInv
<1>1. TypeOK'
  <2>1. (file \in Contents \cup {Torn} /\ onDisk \in SUBSET (Contents \cup {Torn}))'
    BY DEF CopyBackup, TypeOK, Contents, Locations, SessionStates, Sides, Raise,
           disk, call, session, bounds, idle
  <2>2. (temporary \in Contents \cup {Torn} /\ backup \in Contents \cup {Torn})'
    BY DEF CopyBackup, TypeOK, Contents, Locations, SessionStates, Sides, Raise,
           disk, call, session, bounds, idle
  <2>3. (/\ flushed \in SUBSET {"temporary", "backup"}
          /\ backup_created \in BOOLEAN /\ published \in BOOLEAN /\ failed \in BOOLEAN)'
    BY DEF CopyBackup, TypeOK, Contents, Locations, SessionStates, Sides, Raise,
           disk, call, session, bounds, idle
  <2>4. (pc \in Locations /\ operation \in {"none", "configure_camera", "swap_cameras"})'
    BY DEF CopyBackup, TypeOK, Contents, Locations, SessionStates, Sides, Raise,
           disk, call, session, bounds, idle
  <2>5. (target \in Cameras /\ previous \in Settings /\ updated \in ScannerConfiguration)'
    BY DEF CopyBackup, TypeOK, Contents, Locations, SessionStates, Sides, Raise,
           disk, call, session, bounds, idle
  <2>6. (outcome \in {"none", "running", "saved", "failed"} /\ diverged \in BOOLEAN)'
    BY DEF CopyBackup, TypeOK, Contents, Locations, SessionStates, Sides, Raise,
           disk, call, session, bounds, idle
  <2>7. (configuration \in ScannerConfiguration)'
    BY DEF CopyBackup, TypeOK, Contents, Locations, SessionStates, Sides, Raise,
           disk, call, session, bounds, idle
  <2>8. (pair \in [Sides -> Cameras])'
    BY DEF CopyBackup, TypeOK, Contents, Locations, SessionStates, Sides, Raise,
           disk, call, session, bounds, idle
  <2>9. (settings \in [Cameras -> Settings] /\ applied \in [Cameras -> Settings])'
    BY DEF CopyBackup, TypeOK, Contents, Locations, SessionStates, Sides, Raise,
           disk, call, session, bounds, idle
  <2>10. (state \in SessionStates /\ saves \in 0..MaxSaves /\ starts \in 0..MaxStarts)'
    BY DEF CopyBackup, TypeOK, Contents, Locations, SessionStates, Sides, Raise,
           disk, call, session, bounds, idle
  <2> QED
    BY <2>1, <2>2, <2>3, <2>4, <2>5, <2>6, <2>7, <2>8, <2>9, <2>10
       DEF TypeOK, Contents
<1>2. ProcessInv'
  BY DEF CopyBackup, ProcessInv, Operational, SessionStates, Raise, disk, call,
         session, bounds, idle
<1>3. DiskInv'
  BY DEF CopyBackup, DiskInv, Contents, Raise, disk, call, session, bounds
<1>4. SaveInv'
  BY DEF CopyBackup, SaveInv, Raise, disk, call, session, bounds
<1>5. BackupInv'
  BY LoadOfConfiguration, LoadType
     DEF CopyBackup, BackupInv, TypeOK, ProcessInv, SaveInv, DiskInv, UniqueInv,
         Operational, Contents, Locations, SessionStates, Sides, Raise, disk, call,
         session, bounds, idle
<1>6. ObjectInv'
  BY LoadOfConfiguration, LoadType, NamesAssumption
     DEF CopyBackup, ObjectInv, TypeOK, ProcessInv, SaveInv, BackupInv, DiskInv,
         Old, Load, Operational, Contents, Locations, SessionStates, Sides, Raise,
         disk, call, session, bounds, idle
<1>7. UniqueInv'
  BY DEF CopyBackup, UniqueInv, Load, Raise, disk, call, session, bounds
<1>8. SettingsInv'
  BY DEF CopyBackup, SettingsInv, Operational, SessionStates, Sides, InPair, Raise,
         disk, call, session, bounds, idle
<1>9. RolesInv'
  BY DEF CopyBackup, RolesInv, Operational, SessionStates, Sides, Other, Raise,
         disk, call, session, bounds, idle
<1>10. ScansAsConfigured'
  BY DEF CopyBackup, ScansAsConfigured, Sides, InPair, Raise, disk, call, session,
         bounds
<1>11. AlwaysAssignable'
  BY DEF CopyBackup, AlwaysAssignable, Raise, disk, call, session, bounds
<1> QED
  BY <1>1, <1>2, <1>3, <1>4, <1>5, <1>6, <1>7, <1>8, <1>9, <1>10, <1>11

LEMMA PublishStep ==
    ASSUME IInv, Publish
    PROVE  IInv'
<1> USE DEF IInv
<1>1. TypeOK'
  <2>1. (file \in Contents \cup {Torn} /\ onDisk \in SUBSET (Contents \cup {Torn}))'
    BY DEF Publish, TypeOK, Contents, Locations, SessionStates, Sides, Raise,
           Flushed, disk, call, session, bounds, idle
  <2>2. (temporary \in Contents \cup {Torn} /\ backup \in Contents \cup {Torn})'
    BY DEF Publish, TypeOK, Contents, Locations, SessionStates, Sides, Raise,
           Flushed, disk, call, session, bounds, idle
  <2>3. (/\ flushed \in SUBSET {"temporary", "backup"}
          /\ backup_created \in BOOLEAN /\ published \in BOOLEAN /\ failed \in BOOLEAN)'
    BY DEF Publish, TypeOK, Contents, Locations, SessionStates, Sides, Raise,
           Flushed, disk, call, session, bounds, idle
  <2>4. (pc \in Locations /\ operation \in {"none", "configure_camera", "swap_cameras"})'
    BY DEF Publish, TypeOK, Contents, Locations, SessionStates, Sides, Raise,
           Flushed, disk, call, session, bounds, idle
  <2>5. (target \in Cameras /\ previous \in Settings /\ updated \in ScannerConfiguration)'
    BY DEF Publish, TypeOK, Contents, Locations, SessionStates, Sides, Raise,
           Flushed, disk, call, session, bounds, idle
  <2>6. (outcome \in {"none", "running", "saved", "failed"} /\ diverged \in BOOLEAN)'
    BY DEF Publish, TypeOK, Contents, Locations, SessionStates, Sides, Raise,
           Flushed, disk, call, session, bounds, idle
  <2>7. (configuration \in ScannerConfiguration)'
    BY DEF Publish, TypeOK, Contents, Locations, SessionStates, Sides, Raise,
           Flushed, disk, call, session, bounds, idle
  <2>8. (pair \in [Sides -> Cameras])'
    BY DEF Publish, TypeOK, Contents, Locations, SessionStates, Sides, Raise,
           Flushed, disk, call, session, bounds, idle
  <2>9. (settings \in [Cameras -> Settings] /\ applied \in [Cameras -> Settings])'
    BY DEF Publish, TypeOK, Contents, Locations, SessionStates, Sides, Raise,
           Flushed, disk, call, session, bounds, idle
  <2>10. (state \in SessionStates /\ saves \in 0..MaxSaves /\ starts \in 0..MaxStarts)'
    BY DEF Publish, TypeOK, Contents, Locations, SessionStates, Sides, Raise,
           Flushed, disk, call, session, bounds, idle
  <2> QED
    BY <2>1, <2>2, <2>3, <2>4, <2>5, <2>6, <2>7, <2>8, <2>9, <2>10
       DEF TypeOK, Contents
<1>2. ProcessInv'
  BY DEF Publish, ProcessInv, Operational, SessionStates, Raise, Flushed, disk,
         call, session, bounds, idle
<1>3. DiskInv'
  BY LoadOfConfiguration, LoadType, NamesAssumption
     DEF Publish, DiskInv, TypeOK, ProcessInv, SaveInv, BackupInv, Operational,
         Contents, Locations, SessionStates, Sides, Raise, Flushed, disk, call,
         session, bounds, idle
<1>4. SaveInv'
  BY DEF Publish, SaveInv, Raise, Flushed, disk, call, session, bounds
<1>5. BackupInv'
  BY DEF Publish, BackupInv, Contents, Raise, Flushed, disk, call, session, bounds
<1>6. ObjectInv'
  BY LoadOfConfiguration, LoadType, NamesAssumption
     DEF Publish, ObjectInv, TypeOK, ProcessInv, SaveInv, BackupInv, DiskInv, Old,
         Load, Operational, Contents, Locations, SessionStates, Sides, Raise,
         Flushed, disk, call, session, bounds, idle
<1>7. UniqueInv'
  BY LoadOfConfiguration, LoadType
     DEF Publish, UniqueInv, TypeOK, ProcessInv, SaveInv, DiskInv, BackupInv, Load,
         Operational, Contents, Locations, SessionStates, Sides, Raise, Flushed,
         disk, call, session, bounds, idle
<1>8. SettingsInv'
  BY DEF Publish, SettingsInv, Operational, SessionStates, Sides, InPair, Raise,
         Flushed, disk, call, session, bounds, idle
<1>9. RolesInv'
  BY DEF Publish, RolesInv, Operational, SessionStates, Sides, Other, Raise,
         Flushed, disk, call, session, bounds, idle
<1>10. ScansAsConfigured'
  BY DEF Publish, ScansAsConfigured, Sides, InPair, Raise, Flushed, disk, call,
         session, bounds
<1>11. AlwaysAssignable'
  BY DEF Publish, AlwaysAssignable, Raise, Flushed, disk, call, session, bounds
<1> QED
  BY <1>1, <1>2, <1>3, <1>4, <1>5, <1>6, <1>7, <1>8, <1>9, <1>10, <1>11

LEMMA SyncDirectoryStep ==
    ASSUME IInv, SyncDirectory
    PROVE  IInv'
<1> USE DEF IInv
<1>1. TypeOK'
  <2>1. (file \in Contents \cup {Torn} /\ onDisk \in SUBSET (Contents \cup {Torn}))'
    BY DEF SyncDirectory, TypeOK, Contents, Locations, SessionStates, Sides, Raise,
           Flushed, call, session, bounds, idle
  <2>2. (temporary \in Contents \cup {Torn} /\ backup \in Contents \cup {Torn})'
    BY DEF SyncDirectory, TypeOK, Contents, Locations, SessionStates, Sides, Raise,
           Flushed, call, session, bounds, idle
  <2>3. (/\ flushed \in SUBSET {"temporary", "backup"}
          /\ backup_created \in BOOLEAN /\ published \in BOOLEAN /\ failed \in BOOLEAN)'
    BY DEF SyncDirectory, TypeOK, Contents, Locations, SessionStates, Sides, Raise,
           Flushed, call, session, bounds, idle
  <2>4. (pc \in Locations /\ operation \in {"none", "configure_camera", "swap_cameras"})'
    BY DEF SyncDirectory, TypeOK, Contents, Locations, SessionStates, Sides, Raise,
           Flushed, call, session, bounds, idle
  <2>5. (target \in Cameras /\ previous \in Settings /\ updated \in ScannerConfiguration)'
    BY DEF SyncDirectory, TypeOK, Contents, Locations, SessionStates, Sides, Raise,
           Flushed, call, session, bounds, idle
  <2>6. (outcome \in {"none", "running", "saved", "failed"} /\ diverged \in BOOLEAN)'
    BY DEF SyncDirectory, TypeOK, Contents, Locations, SessionStates, Sides, Raise,
           Flushed, call, session, bounds, idle
  <2>7. (configuration \in ScannerConfiguration)'
    BY DEF SyncDirectory, TypeOK, Contents, Locations, SessionStates, Sides, Raise,
           Flushed, call, session, bounds, idle
  <2>8. (pair \in [Sides -> Cameras])'
    BY DEF SyncDirectory, TypeOK, Contents, Locations, SessionStates, Sides, Raise,
           Flushed, call, session, bounds, idle
  <2>9. (settings \in [Cameras -> Settings] /\ applied \in [Cameras -> Settings])'
    BY DEF SyncDirectory, TypeOK, Contents, Locations, SessionStates, Sides, Raise,
           Flushed, call, session, bounds, idle
  <2>10. (state \in SessionStates /\ saves \in 0..MaxSaves /\ starts \in 0..MaxStarts)'
    BY DEF SyncDirectory, TypeOK, Contents, Locations, SessionStates, Sides, Raise,
           Flushed, call, session, bounds, idle
  <2> QED
    BY <2>1, <2>2, <2>3, <2>4, <2>5, <2>6, <2>7, <2>8, <2>9, <2>10
       DEF TypeOK, Contents
<1>2. ProcessInv'
  BY DEF SyncDirectory, ProcessInv, Operational, SessionStates, Raise, Flushed,
         call, session, bounds, idle
<1>3. DiskInv'
  BY LoadOfConfiguration, LoadType, NamesAssumption
     DEF SyncDirectory, DiskInv, TypeOK, ProcessInv, SaveInv, BackupInv,
         Operational, Contents, Locations, SessionStates, Sides, Raise, Flushed,
         call, session, bounds, idle
<1>4. SaveInv'
  BY DEF SyncDirectory, SaveInv, Raise, Flushed, call, session, bounds
<1>5. BackupInv'
  BY DEF SyncDirectory, BackupInv, Contents, Raise, Flushed, call, session, bounds
<1>6. ObjectInv'
  BY LoadOfConfiguration, LoadType, NamesAssumption
     DEF SyncDirectory, ObjectInv, TypeOK, ProcessInv, SaveInv, BackupInv, DiskInv,
         Old, Load, Operational, Contents, Locations, SessionStates, Sides, Raise,
         Flushed, call, session, bounds, idle
<1>7. UniqueInv'
  BY LoadOfConfiguration, LoadType
     DEF SyncDirectory, UniqueInv, TypeOK, ProcessInv, SaveInv, DiskInv, BackupInv,
         Load, Operational, Contents, Locations, SessionStates, Sides, Raise,
         Flushed, call, session, bounds, idle
<1>8. SettingsInv'
  BY DEF SyncDirectory, SettingsInv, Operational, SessionStates, Sides, InPair,
         Raise, Flushed, call, session, bounds, idle
<1>9. RolesInv'
  BY DEF SyncDirectory, RolesInv, Operational, SessionStates, Sides, Other, Raise,
         Flushed, call, session, bounds, idle
<1>10. ScansAsConfigured'
  BY DEF SyncDirectory, ScansAsConfigured, Sides, InPair, Raise, Flushed, call,
         session, bounds
<1>11. AlwaysAssignable'
  BY DEF SyncDirectory, AlwaysAssignable, Raise, Flushed, call, session, bounds
<1> QED
  BY <1>1, <1>2, <1>3, <1>4, <1>5, <1>6, <1>7, <1>8, <1>9, <1>10, <1>11

LEMMA DiscardBackupStep ==
    ASSUME IInv, DiscardBackup
    PROVE  IInv'
<1> USE DEF IInv
<1>1. TypeOK'
  <2>1. (file \in Contents \cup {Torn} /\ onDisk \in SUBSET (Contents \cup {Torn}))'
    BY DEF DiscardBackup, TypeOK, Contents, Locations, SessionStates, Sides, Raise,
           disk, call, session, bounds, idle
  <2>2. (temporary \in Contents \cup {Torn} /\ backup \in Contents \cup {Torn})'
    BY DEF DiscardBackup, TypeOK, Contents, Locations, SessionStates, Sides, Raise,
           disk, call, session, bounds, idle
  <2>3. (/\ flushed \in SUBSET {"temporary", "backup"}
          /\ backup_created \in BOOLEAN /\ published \in BOOLEAN /\ failed \in BOOLEAN)'
    BY DEF DiscardBackup, TypeOK, Contents, Locations, SessionStates, Sides, Raise,
           disk, call, session, bounds, idle
  <2>4. (pc \in Locations /\ operation \in {"none", "configure_camera", "swap_cameras"})'
    BY DEF DiscardBackup, TypeOK, Contents, Locations, SessionStates, Sides, Raise,
           disk, call, session, bounds, idle
  <2>5. (target \in Cameras /\ previous \in Settings /\ updated \in ScannerConfiguration)'
    BY DEF DiscardBackup, TypeOK, Contents, Locations, SessionStates, Sides, Raise,
           disk, call, session, bounds, idle
  <2>6. (outcome \in {"none", "running", "saved", "failed"} /\ diverged \in BOOLEAN)'
    BY DEF DiscardBackup, TypeOK, Contents, Locations, SessionStates, Sides, Raise,
           disk, call, session, bounds, idle
  <2>7. (configuration \in ScannerConfiguration)'
    BY DEF DiscardBackup, TypeOK, Contents, Locations, SessionStates, Sides, Raise,
           disk, call, session, bounds, idle
  <2>8. (pair \in [Sides -> Cameras])'
    BY DEF DiscardBackup, TypeOK, Contents, Locations, SessionStates, Sides, Raise,
           disk, call, session, bounds, idle
  <2>9. (settings \in [Cameras -> Settings] /\ applied \in [Cameras -> Settings])'
    BY DEF DiscardBackup, TypeOK, Contents, Locations, SessionStates, Sides, Raise,
           disk, call, session, bounds, idle
  <2>10. (state \in SessionStates /\ saves \in 0..MaxSaves /\ starts \in 0..MaxStarts)'
    BY DEF DiscardBackup, TypeOK, Contents, Locations, SessionStates, Sides, Raise,
           disk, call, session, bounds, idle
  <2> QED
    BY <2>1, <2>2, <2>3, <2>4, <2>5, <2>6, <2>7, <2>8, <2>9, <2>10
       DEF TypeOK, Contents
<1>2. ProcessInv'
  BY DEF DiscardBackup, ProcessInv, Operational, SessionStates, Raise, disk, call,
         session, bounds, idle
<1>3. DiskInv'
  BY DEF DiscardBackup, DiskInv, Contents, Raise, disk, call, session, bounds
<1>4. SaveInv'
  BY DEF DiscardBackup, SaveInv, Raise, disk, call, session, bounds
<1>5. BackupInv'
  BY DEF DiscardBackup, BackupInv, Contents, Raise, disk, call, session, bounds
<1>6. ObjectInv'
  BY LoadOfConfiguration, LoadType, NamesAssumption
     DEF DiscardBackup, ObjectInv, TypeOK, ProcessInv, SaveInv, BackupInv, DiskInv,
         Old, Load, Operational, Contents, Locations, SessionStates, Sides, Raise,
         disk, call, session, bounds, idle
<1>7. UniqueInv'
  BY DEF DiscardBackup, UniqueInv, Load, Raise, disk, call, session, bounds
<1>8. SettingsInv'
  BY DEF DiscardBackup, SettingsInv, Operational, SessionStates, Sides, InPair,
         Raise, disk, call, session, bounds, idle
<1>9. RolesInv'
  BY DEF DiscardBackup, RolesInv, Operational, SessionStates, Sides, Other, Raise,
         disk, call, session, bounds, idle
<1>10. ScansAsConfigured'
  BY DEF DiscardBackup, ScansAsConfigured, Sides, InPair, Raise, disk, call,
         session, bounds
<1>11. AlwaysAssignable'
  BY DEF DiscardBackup, AlwaysAssignable, Raise, disk, call, session, bounds
<1> QED
  BY <1>1, <1>2, <1>3, <1>4, <1>5, <1>6, <1>7, <1>8, <1>9, <1>10, <1>11

LEMMA RollbackStep ==
    ASSUME IInv, Rollback
    PROVE  IInv'
<1> USE DEF IInv
<1>1. TypeOK'
  <2>1. (file \in Contents \cup {Torn} /\ onDisk \in SUBSET (Contents \cup {Torn}))'
    BY DEF Rollback, TypeOK, Contents, Locations, SessionStates, Sides, Flushed,
           disk, call, session, bounds, idle
  <2>2. (temporary \in Contents \cup {Torn} /\ backup \in Contents \cup {Torn})'
    BY DEF Rollback, TypeOK, Contents, Locations, SessionStates, Sides, Flushed,
           disk, call, session, bounds, idle
  <2>3. (/\ flushed \in SUBSET {"temporary", "backup"}
          /\ backup_created \in BOOLEAN /\ published \in BOOLEAN /\ failed \in BOOLEAN)'
    BY DEF Rollback, TypeOK, Contents, Locations, SessionStates, Sides, Flushed,
           disk, call, session, bounds, idle
  <2>4. (pc \in Locations /\ operation \in {"none", "configure_camera", "swap_cameras"})'
    BY DEF Rollback, TypeOK, Contents, Locations, SessionStates, Sides, Flushed,
           disk, call, session, bounds, idle
  <2>5. (target \in Cameras /\ previous \in Settings /\ updated \in ScannerConfiguration)'
    BY DEF Rollback, TypeOK, Contents, Locations, SessionStates, Sides, Flushed,
           disk, call, session, bounds, idle
  <2>6. (outcome \in {"none", "running", "saved", "failed"} /\ diverged \in BOOLEAN)'
    BY DEF Rollback, TypeOK, Contents, Locations, SessionStates, Sides, Flushed,
           disk, call, session, bounds, idle
  <2>7. (configuration \in ScannerConfiguration)'
    BY DEF Rollback, TypeOK, Contents, Locations, SessionStates, Sides, Flushed,
           disk, call, session, bounds, idle
  <2>8. (pair \in [Sides -> Cameras])'
    BY DEF Rollback, TypeOK, Contents, Locations, SessionStates, Sides, Flushed,
           disk, call, session, bounds, idle
  <2>9. (settings \in [Cameras -> Settings] /\ applied \in [Cameras -> Settings])'
    BY DEF Rollback, TypeOK, Contents, Locations, SessionStates, Sides, Flushed,
           disk, call, session, bounds, idle
  <2>10. (state \in SessionStates /\ saves \in 0..MaxSaves /\ starts \in 0..MaxStarts)'
    BY DEF Rollback, TypeOK, Contents, Locations, SessionStates, Sides, Flushed,
           disk, call, session, bounds, idle
  <2> QED
    BY <2>1, <2>2, <2>3, <2>4, <2>5, <2>6, <2>7, <2>8, <2>9, <2>10
       DEF TypeOK, Contents
<1>2. ProcessInv'
  BY DEF Rollback, ProcessInv, Operational, SessionStates, Flushed, disk, call,
         session, bounds, idle
<1>3. DiskInv'
  BY LoadOfConfiguration, LoadType, NamesAssumption
     DEF Rollback, DiskInv, TypeOK, ProcessInv, SaveInv, BackupInv, Operational,
         Contents, Locations, SessionStates, Sides, Flushed, disk, call, session,
         bounds, idle
<1>4. SaveInv'
  BY DEF Rollback, SaveInv, Flushed, disk, call, session, bounds
<1>5. BackupInv'
  BY DEF Rollback, BackupInv, Contents, Flushed, disk, call, session, bounds
<1>6. ObjectInv'
  BY DEF Rollback, ObjectInv, ProcessInv, Old, Load, Operational, SessionStates,
         Flushed, disk, call, session, bounds, idle
<1>7. UniqueInv'
  <2>1. UniqueRoles(Load(Absent)) /\ UniqueRoles(updated) /\ UniqueRoles(configuration)
    BY EmptyIsConfiguration DEF Load, UniqueInv
  <2>2. published /\ backup_created =>
           Flushed("backup", backup) = backup /\ UniqueRoles(Load(backup))
    BY DEF Rollback, BackupInv, Flushed
  <2>3. \A f \in onDisk' :
           \/ f \in onDisk
           \/ published /\ f = IF backup_created THEN Flushed("backup", backup) ELSE Absent
    <3> DEFINE kept == IF backup_created THEN Flushed("backup", backup) ELSE Absent
    <3>1. \/ onDisk' = onDisk
          \/ published /\ onDisk' \in {{kept}, onDisk \cup {kept}}
      BY DEF Rollback, disk
    <3> HIDE DEF kept
    <3>2. ASSUME NEW f \in onDisk' PROVE f \in onDisk \/ (published /\ f = kept)
      BY <3>1
    <3> QED
      BY <3>2 DEF kept
  <2>4. \A f \in onDisk' : UniqueRoles(Load(f))
    BY <2>1, <2>2, <2>3 DEF UniqueInv
  <2>5. updated' = updated /\ configuration' = configuration
    BY DEF Rollback, call
  <2> QED
    BY <2>1, <2>4, <2>5 DEF UniqueInv
<1>8. SettingsInv'
  BY DEF Rollback, SettingsInv, Operational, SessionStates, Sides, InPair, Flushed,
         disk, call, session, bounds, idle
<1>9. RolesInv'
  BY DEF Rollback, RolesInv, Operational, SessionStates, Sides, Other, Flushed,
         disk, call, session, bounds, idle
<1>10. ScansAsConfigured'
  BY DEF Rollback, ScansAsConfigured, Sides, InPair, Flushed, disk, call, session,
         bounds
<1>11. AlwaysAssignable'
  BY DEF Rollback, AlwaysAssignable, Flushed, disk, call, session, bounds
<1> QED
  BY <1>1, <1>2, <1>3, <1>4, <1>5, <1>6, <1>7, <1>8, <1>9, <1>10, <1>11

LEMMA RemoveTemporaryStep ==
    ASSUME IInv, RemoveTemporary
    PROVE  IInv'
<1> USE DEF IInv
<1>1. TypeOK'
  <2>1. failed' \in BOOLEAN /\ diverged' \in BOOLEAN
    BY ZenonT(30) DEF RemoveTemporary, TypeOK
  <2>2. temporary' \in Contents \cup {Torn} /\ pc' \in Locations
    BY DEF RemoveTemporary, TypeOK, Contents, Locations
  <2> QED
    BY <2>1, <2>2 DEF RemoveTemporary, TypeOK, disk, call, session, bounds
<1>2. ProcessInv'
  BY DEF RemoveTemporary, ProcessInv, Operational, SessionStates, disk, call,
         session, bounds, idle
<1>3. DiskInv'
  BY DEF RemoveTemporary, DiskInv, Contents, disk, call, session, bounds
<1>4. SaveInv'
  BY DEF RemoveTemporary, SaveInv, disk, call, session, bounds
<1>5. BackupInv'
  BY DEF RemoveTemporary, BackupInv, Contents, disk, call, session, bounds
<1>6. ObjectInv'
  <2>1. pc = "finally" /\ pc' = "conclude" /\ UNCHANGED <<file, onDisk, outcome, configuration>>
    BY DEF RemoveTemporary, disk
  <2>2. ASSUME ~diverged', failed'
        PROVE  ~diverged /\ failed
    <3>1. CASE failed' = failed /\ diverged' = diverged
      BY <2>2, <3>1, Zenon
    <3>2. CASE diverged' = (diverged \/ ~failed)
      BY <2>2, <3>2, Zenon
    <3> QED
      BY <3>1, <3>2, Zenon DEF RemoveTemporary
  <2>3. ~diverged' /\ failed' => Load(file') = configuration'
    BY <2>1, <2>2 DEF ObjectInv, Load
  <2> QED
    BY <2>1, <2>3 DEF ObjectInv
<1>7. UniqueInv'
  BY DEF RemoveTemporary, UniqueInv, Load, disk, call, session, bounds
<1>8. SettingsInv'
  BY DEF RemoveTemporary, SettingsInv, Operational, SessionStates, Sides, InPair,
         disk, call, session, bounds, idle
<1>9. RolesInv'
  BY DEF RemoveTemporary, RolesInv, Operational, SessionStates, Sides, Other, disk,
         call, session, bounds, idle
<1>10. ScansAsConfigured'
  BY DEF RemoveTemporary, ScansAsConfigured, Sides, InPair, disk, call, session,
         bounds
<1>11. AlwaysAssignable'
  BY DEF RemoveTemporary, AlwaysAssignable, disk, call, session, bounds
<1> QED
  BY <1>1, <1>2, <1>3, <1>4, <1>5, <1>6, <1>7, <1>8, <1>9, <1>10, <1>11

LEMMA CommitStep ==
    ASSUME IInv, Commit
    PROVE  IInv'
<1> USE DEF IInv
<1>1. TypeOK'
  BY EmptyIsConfiguration, CameraExists, SettingsAssumption, LoadOfConfiguration,
     LoadType, NamesAssumption, BoundsAssumption
     DEF Commit, TypeOK, Contents, Locations, SessionStates, Sides, Return, disk,
         session, bounds, idle
<1>2. ProcessInv'
  BY DEF Commit, ProcessInv, Operational, SessionStates, Return, disk, session,
         bounds, idle
<1>3. DiskInv'
  BY DEF Commit, DiskInv, Contents, Return, disk, session, bounds, idle
<1>4. SaveInv'
  BY DEF Commit, SaveInv, Return, disk, session, bounds, idle
<1>5. BackupInv'
  BY DEF Commit, BackupInv, Contents, Return, disk, session, bounds, idle
<1>6. ObjectInv'
  BY EmptyIsConfiguration, CameraExists, SettingsAssumption, LoadOfConfiguration,
     LoadType, NamesAssumption
     DEF Commit, ObjectInv, TypeOK, ProcessInv, SaveInv, BackupInv, DiskInv, Old,
         Load, Operational, Contents, Locations, SessionStates, Sides, Return, disk,
         session, bounds, idle
<1>7. UniqueInv'
  BY EmptyIsConfiguration, CameraExists, SettingsAssumption, LoadOfConfiguration,
     LoadType DEF Commit, UniqueInv, Load, Return, disk, session, bounds, idle
<1>8. SettingsInv'
  <2>1. /\ pc' = "idle" /\ configuration' = updated
        /\ pair' = pair /\ settings' = settings /\ state' = state
    BY DEF Commit, Return, session
  <2>2. ASSUME Operational, NEW c \in InPair
        PROVE  settings[c] = updated[c].settings
    BY <2>2, UpdatedLemma DEF Commit, SettingsInv, InPair
  <2> QED
    BY <2>1, <2>2 DEF SettingsInv, InPair, Operational
<1>9. RolesInv'
  <2>1. pc' = "idle" /\ configuration' = updated /\ pair' = pair /\ state' = state
    BY DEF Commit, Return, session
  <2>2. ASSUME Operational, NEW s \in Sides
        PROVE  updated[pair[s]].position \in {s, Nowhere}
    <3>1. pair[s] \in Cameras /\ pc # "idle"
      BY UpdatedLemma DEF Commit
    <3> QED
      BY <2>2, <3>1, UpdatedLemma DEF RolesInv, SettingsInv
  <2> QED
    BY <2>1, <2>2 DEF RolesInv, Operational
<1>10. ScansAsConfigured'
  <2>1. /\ configuration' = updated /\ pair' = pair /\ state' = state /\ applied' = applied
        /\ pc # "idle"
    BY DEF Commit, session
  <2>2. ASSUME state \in {"ready_to_focus", "ready"}, NEW c \in InPair
        PROVE  updated[c].settings = configuration[c].settings
    BY <2>1, <2>2, UpdatedLemma DEF SettingsInv, InPair
  <2> QED
    BY <2>1, <2>2 DEF ScansAsConfigured, InPair
<1>11. AlwaysAssignable'
  BY DEF Commit, AlwaysAssignable, Return, disk, session, bounds, idle
<1> QED
  BY <1>1, <1>2, <1>3, <1>4, <1>5, <1>6, <1>7, <1>8, <1>9, <1>10, <1>11

LEMMA UndoStep ==
    ASSUME IInv, Undo
    PROVE  IInv'
<1> USE DEF IInv
<1>1. TypeOK'
  <2>1. (file \in Contents \cup {Torn} /\ onDisk \in SUBSET (Contents \cup {Torn}))'
    BY DEF Undo, TypeOK, Contents, Locations, SessionStates, Sides, Other, Return,
           disk, bounds, idle
  <2>2. (temporary \in Contents \cup {Torn} /\ backup \in Contents \cup {Torn})'
    BY DEF Undo, Contents, Sides, Other, Return, disk, bounds, idle
  <2>3. (/\ flushed \in SUBSET {"temporary", "backup"}
          /\ backup_created \in BOOLEAN /\ published \in BOOLEAN /\ failed \in BOOLEAN)'
    BY DEF Undo, Sides, Other, Return, disk, bounds, idle
  <2>4. (pc \in Locations /\ operation \in {"none", "configure_camera", "swap_cameras"})'
    BY DEF Undo, Locations, Sides, Other, Return, disk, bounds, idle
  <2>5. (target \in Cameras /\ previous \in Settings /\ updated \in ScannerConfiguration)'
    BY EmptyIsConfiguration, CameraExists, SettingsAssumption, LoadOfConfiguration,
       LoadType, NamesAssumption, BoundsAssumption
       DEF Undo, Sides, Other, Return, disk, bounds, idle
  <2>6. (outcome \in {"none", "running", "saved", "failed"} /\ diverged \in BOOLEAN)'
    BY DEF Undo, TypeOK, Contents, Locations, SessionStates, Sides, Other, Return,
           disk, bounds, idle
  <2>7. (configuration \in ScannerConfiguration)'
    BY DEF Undo, TypeOK, Contents, Locations, SessionStates, Sides, Other, Return,
           disk, bounds, idle
  <2>8. (pair \in [Sides -> Cameras])'
    BY DEF Undo, TypeOK, Contents, Locations, SessionStates, Sides, Other, Return,
           disk, bounds, idle
  <2>9. (settings \in [Cameras -> Settings] /\ applied \in [Cameras -> Settings])'
    BY DEF Undo, TypeOK, Contents, Locations, SessionStates, Sides, Other, Return,
           disk, bounds, idle
  <2>10. (state \in SessionStates /\ saves \in 0..MaxSaves /\ starts \in 0..MaxStarts)'
    BY DEF Undo, TypeOK, Contents, Locations, SessionStates, Sides, Other, Return,
           disk, bounds, idle
  <2> QED
    BY <2>1, <2>2, <2>3, <2>4, <2>5, <2>6, <2>7, <2>8, <2>9, <2>10
       DEF TypeOK, Contents
<1>2. ProcessInv'
  BY DEF Undo, ProcessInv, Operational, SessionStates, Sides, Other, Return, disk,
         bounds, idle
<1>3. DiskInv'
  BY DEF Undo, DiskInv, Contents, Sides, Other, Return, disk, bounds, idle
<1>4. SaveInv'
  BY DEF Undo, SaveInv, Sides, Other, Return, disk, bounds, idle
<1>5. BackupInv'
  BY DEF Undo, BackupInv, Contents, Sides, Other, Return, disk, bounds, idle
<1>6. ObjectInv'
  BY DEF Undo, ObjectInv, Old, Load, Operational, SessionStates, Sides, Other,
         Return, disk, bounds, idle
<1>7. UniqueInv'
  BY EmptyIsConfiguration, CameraExists, SettingsAssumption, LoadOfConfiguration,
     LoadType DEF Undo, UniqueInv, Load, Sides, Other, Return, disk, bounds, idle
<1>8. SettingsInv'
  BY DEF Undo, SettingsInv, TypeOK, Operational, Contents, Locations, SessionStates,
         Sides, InPair, Other, Return, disk, bounds, idle
<1>9. RolesInv'
  BY DEF Undo, RolesInv, Operational, SessionStates, Sides, Other, Return, disk,
         bounds, idle
<1>10. ScansAsConfigured'
  BY DEF Undo, ScansAsConfigured, Sides, InPair, Other, Return, disk, bounds, idle
<1>11. AlwaysAssignable'
  BY DEF Undo, AlwaysAssignable, Sides, Other, Return, disk, bounds, idle
<1> QED
  BY <1>1, <1>2, <1>3, <1>4, <1>5, <1>6, <1>7, <1>8, <1>9, <1>10, <1>11

LEMMA ConfigureCameraStep ==
    ASSUME IInv, NEW camera \in Cameras, NEW choice \in Settings, ConfigureCamera(camera, choice)
    PROVE  IInv'
<1> USE DEF IInv
<1>1. TypeOK'
  <2>1. (file \in Contents \cup {Torn} /\ onDisk \in SUBSET (Contents \cup {Torn}))'
    BY DEF ConfigureCamera, TypeOK, Contents, Locations, SessionStates, Sides,
           InPair, Begin, disk, saving, idle
  <2>2. (temporary \in Contents \cup {Torn} /\ backup \in Contents \cup {Torn})'
    BY DEF ConfigureCamera, TypeOK, Contents, Locations, SessionStates, Sides,
           InPair, Begin, disk, saving, idle
  <2>3. (/\ flushed \in SUBSET {"temporary", "backup"}
          /\ backup_created \in BOOLEAN /\ published \in BOOLEAN /\ failed \in BOOLEAN)'
    BY DEF ConfigureCamera, TypeOK, Contents, Locations, SessionStates, Sides,
           InPair, Begin, disk, saving, idle
  <2>4. (pc \in Locations /\ operation \in {"none", "configure_camera", "swap_cameras"})'
    BY DEF ConfigureCamera, Locations, Sides, InPair, Begin, disk, saving, idle
  <2>5. (target \in Cameras /\ previous \in Settings /\ updated \in ScannerConfiguration)'
    BY WithSettingsLemma, LoadOfConfiguration, LoadType, NamesAssumption,
       ConfigurationType, BoundsAssumption
       DEF ConfigureCamera, TypeOK, Contents, Locations, SessionStates, Sides,
           InPair, Begin, disk, saving, idle
  <2>6. (outcome \in {"none", "running", "saved", "failed"} /\ diverged \in BOOLEAN)'
    BY DEF ConfigureCamera, TypeOK, Contents, Locations, SessionStates, Sides,
           InPair, Begin, disk, saving, idle
  <2>7. (configuration \in ScannerConfiguration)'
    BY DEF ConfigureCamera, TypeOK, Contents, Locations, SessionStates, Sides,
           InPair, Begin, disk, saving, idle
  <2>8. (pair \in [Sides -> Cameras])'
    BY DEF ConfigureCamera, TypeOK, Contents, Locations, SessionStates, Sides,
           InPair, Begin, disk, saving, idle
  <2>9. (settings \in [Cameras -> Settings] /\ applied \in [Cameras -> Settings])'
    BY DEF ConfigureCamera, TypeOK, Contents, Locations, SessionStates, Sides,
           InPair, Begin, disk, saving, idle
  <2>10. (state \in SessionStates /\ saves \in 0..MaxSaves /\ starts \in 0..MaxStarts)'
    BY BoundsAssumption DEF ConfigureCamera, Begin, TypeOK
  <2> QED
    BY <2>1, <2>2, <2>3, <2>4, <2>5, <2>6, <2>7, <2>8, <2>9, <2>10
       DEF TypeOK, Contents
<1>2. ProcessInv'
  BY DEF ConfigureCamera, ProcessInv, Operational, SessionStates, Sides, InPair,
         Begin, disk, saving, idle
<1>3. DiskInv'
  BY DEF ConfigureCamera, DiskInv, Contents, Sides, InPair, Begin, disk, saving,
         idle
<1>4. SaveInv'
  BY DEF ConfigureCamera, SaveInv, ProcessInv, Operational, SessionStates, Sides,
         InPair, Begin, disk, saving, idle
<1>5. BackupInv'
  BY DEF ConfigureCamera, BackupInv, Contents, Sides, InPair, Begin, disk, saving,
         idle
<1>6. ObjectInv'
  BY DEF ConfigureCamera, ObjectInv, Old, Load, Operational, SessionStates, Sides,
         InPair, Begin, disk, saving, idle
<1>7. UniqueInv'
  BY WithSettingsLemma, LoadOfConfiguration, LoadType, ConfigurationType
     DEF ConfigureCamera, UniqueInv, TypeOK, Load, Contents, Locations,
         SessionStates, Sides, InPair, Begin, disk, saving, idle
<1>8. SettingsInv'
  <2>1. /\ pc' = "write" /\ operation' = "configure_camera" /\ target' = camera
        /\ previous' = settings[camera] /\ state' = "new" /\ camera \in InPair
        /\ updated' = WithCameraSettings(configuration, camera, choice)
        /\ configuration' = configuration /\ pair' = pair /\ pc = "idle"
    BY DEF ConfigureCamera, Begin
  <2>2. /\ settings'[camera] = choice
        /\ \A c \in Cameras : c # camera => settings'[c] = settings[c]
    BY DEF ConfigureCamera, TypeOK
  <2>3. \A c \in InPair : settings[c] = configuration[c].settings /\ c \in Cameras
    BY <2>1
       DEF SettingsInv, Operational, SessionStates, ConfigureCamera, InPair, TypeOK
  <2> QED
    BY <2>1, <2>2, <2>3 DEF SettingsInv, InPair
<1>9. RolesInv'
  BY DEF ConfigureCamera, RolesInv, Operational, SessionStates, Sides, InPair,
         Other, Begin, disk, saving, idle
<1>10. ScansAsConfigured'
  BY DEF ConfigureCamera, ScansAsConfigured, Sides, InPair, Begin, disk, saving,
         idle
<1>11. AlwaysAssignable'
  BY DEF ConfigureCamera, AlwaysAssignable, Sides, InPair, Begin, disk, saving, idle
<1> QED
  BY <1>1, <1>2, <1>3, <1>4, <1>5, <1>6, <1>7, <1>8, <1>9, <1>10, <1>11

LEMMA SwapCamerasStep ==
    ASSUME IInv, SwapCameras
    PROVE  IInv'
<1> USE DEF IInv
<1>a. updated' \in ScannerConfiguration /\ UniqueRoles(updated')
  <2> DEFINE swapped == [s \in Sides |-> pair[Other(s)]]
  <2>1. swapped \in [Sides -> Cameras] /\ swapped["even"] # swapped["odd"]
    BY DEF SwapCameras, RolesInv, Operational, SessionStates, TypeOK, Sides, Other
  <2> QED
    BY <2>1, WithPositionsLemma DEF SwapCameras, Begin, TypeOK
<1>1. TypeOK'
  <2>1. (file \in Contents \cup {Torn} /\ onDisk \in SUBSET (Contents \cup {Torn}))'
    BY DEF SwapCameras, TypeOK, Contents, Locations, SessionStates, Sides, Other,
           Begin, disk, saving, idle
  <2>2. (temporary \in Contents \cup {Torn} /\ backup \in Contents \cup {Torn})'
    BY DEF SwapCameras, TypeOK, Contents, Locations, SessionStates, Sides, Other,
           Begin, disk, saving, idle
  <2>3. (/\ flushed \in SUBSET {"temporary", "backup"}
          /\ backup_created \in BOOLEAN /\ published \in BOOLEAN /\ failed \in BOOLEAN)'
    BY DEF SwapCameras, TypeOK, Contents, Locations, SessionStates, Sides, Other,
           Begin, disk, saving, idle
  <2>4. (pc \in Locations /\ operation \in {"none", "configure_camera", "swap_cameras"})'
    BY DEF SwapCameras, Locations, Sides, Other, Begin, disk, saving, idle
  <2>5. (target \in Cameras /\ previous \in Settings /\ updated \in ScannerConfiguration)'
    BY <1>a DEF SwapCameras, TypeOK
  <2>6. (outcome \in {"none", "running", "saved", "failed"} /\ diverged \in BOOLEAN)'
    BY DEF SwapCameras, TypeOK, Contents, Locations, SessionStates, Sides, Other,
           Begin, disk, saving, idle
  <2>7. (configuration \in ScannerConfiguration)'
    BY DEF SwapCameras, TypeOK, Contents, Locations, SessionStates, Sides, Other,
           Begin, disk, saving, idle
  <2>8. (pair \in [Sides -> Cameras])'
    BY DEF SwapCameras, TypeOK, Contents, Locations, SessionStates, Sides, Other,
           Begin, disk, saving, idle
  <2>9. (settings \in [Cameras -> Settings] /\ applied \in [Cameras -> Settings])'
    BY DEF SwapCameras, TypeOK, Contents, Locations, SessionStates, Sides, Other,
           Begin, disk, saving, idle
  <2>10. (state \in SessionStates /\ saves \in 0..MaxSaves /\ starts \in 0..MaxStarts)'
    BY WithPositionsLemma, LoadOfConfiguration, LoadType, NamesAssumption,
       BoundsAssumption
       DEF SwapCameras, TypeOK, Contents, Locations, SessionStates, Sides, Other,
           Begin, disk, saving, idle
  <2> QED
    BY <2>1, <2>2, <2>3, <2>4, <2>5, <2>6, <2>7, <2>8, <2>9, <2>10
       DEF TypeOK, Contents
<1>2. ProcessInv'
  BY DEF SwapCameras, ProcessInv, Operational, SessionStates, Sides, Other, Begin,
         disk, saving, idle
<1>3. DiskInv'
  BY DEF SwapCameras, DiskInv, Contents, Sides, Other, Begin, disk, saving, idle
<1>4. SaveInv'
  BY DEF SwapCameras, SaveInv, ProcessInv, Operational, SessionStates, Sides, Other,
         Begin, disk, saving, idle
<1>5. BackupInv'
  BY DEF SwapCameras, BackupInv, Contents, Sides, Other, Begin, disk, saving, idle
<1>6. ObjectInv'
  BY DEF SwapCameras, ObjectInv, Old, Load, Operational, SessionStates, Sides,
         Other, Begin, disk, saving, idle
<1>7. UniqueInv'
  BY <1>a DEF SwapCameras, UniqueInv, disk
<1>8. SettingsInv'
  BY DEF SwapCameras, SettingsInv, Operational, SessionStates, Sides, InPair, Other,
         Begin, disk, saving, idle
<1>9. RolesInv'
  BY DEF SwapCameras, RolesInv, Operational, SessionStates, Sides, Other, Begin,
         disk, saving, idle
<1>10. ScansAsConfigured'
  BY DEF SwapCameras, ScansAsConfigured, Sides, InPair, Other, Begin, disk, saving,
         idle
<1>11. AlwaysAssignable'
  BY DEF SwapCameras, AlwaysAssignable, Sides, Other, Begin, disk, saving, idle
<1> QED
  BY <1>1, <1>2, <1>3, <1>4, <1>5, <1>6, <1>7, <1>8, <1>9, <1>10, <1>11

LEMMA TestCaptureStep ==
    ASSUME IInv, NEW camera \in Cameras, TestCapture(camera)
    PROVE  IInv'
<1> USE DEF IInv
<1>1. TypeOK'
  BY DEF TestCapture, TypeOK, Contents, Locations, SessionStates, Sides, InPair,
         disk, saving, call, bounds, unsaved, idle
<1>2. ProcessInv'
  BY DEF TestCapture, ProcessInv, Operational, SessionStates, Sides, InPair, disk,
         saving, call, bounds, unsaved, idle
<1>3. DiskInv'
  BY DEF TestCapture, DiskInv, Contents, Sides, InPair, disk, saving, call, bounds,
         unsaved, idle
<1>4. SaveInv'
  BY DEF TestCapture, SaveInv, Sides, InPair, disk, saving, call, bounds, unsaved,
         idle
<1>5. BackupInv'
  BY DEF TestCapture, BackupInv, Contents, Sides, InPair, disk, saving, call,
         bounds, unsaved, idle
<1>6. ObjectInv'
  BY DEF TestCapture, ObjectInv, Old, Load, Operational, SessionStates, Sides,
         InPair, disk, saving, call, bounds, unsaved, idle
<1>7. UniqueInv'
  BY DEF TestCapture, UniqueInv, Load, Sides, InPair, disk, saving, call, bounds,
         unsaved, idle
<1>8. SettingsInv'
  BY DEF TestCapture, SettingsInv, Operational, SessionStates, Sides, InPair, disk,
         saving, call, bounds, unsaved, idle
<1>9. RolesInv'
  BY DEF TestCapture, RolesInv, Operational, SessionStates, Sides, InPair, Other,
         disk, saving, call, bounds, unsaved, idle
<1>10. ScansAsConfigured'
  BY DEF TestCapture, ScansAsConfigured, Sides, InPair, disk, saving, call, bounds,
         unsaved, idle
<1>11. AlwaysAssignable'
  BY DEF TestCapture, AlwaysAssignable, Sides, InPair, disk, saving, call, bounds,
         unsaved, idle
<1> QED
  BY <1>1, <1>2, <1>3, <1>4, <1>5, <1>6, <1>7, <1>8, <1>9, <1>10, <1>11

LEMMA PrepareStep ==
    ASSUME IInv, Prepare
    PROVE  IInv'
<1> USE DEF IInv
<1>1. TypeOK'
  BY DEF Prepare, TypeOK, Contents, Locations, SessionStates, Sides, InPair,
         Prepared, disk, saving, call, bounds, unsaved, idle
<1>2. ProcessInv'
  BY DEF Prepare, ProcessInv, Operational, SessionStates, Sides, InPair, Prepared,
         disk, saving, call, bounds, unsaved, idle
<1>3. DiskInv'
  BY DEF Prepare, DiskInv, Contents, Sides, InPair, Prepared, disk, saving, call,
         bounds, unsaved, idle
<1>4. SaveInv'
  BY DEF Prepare, SaveInv, Sides, InPair, Prepared, disk, saving, call, bounds,
         unsaved, idle
<1>5. BackupInv'
  BY DEF Prepare, BackupInv, Contents, Sides, InPair, Prepared, disk, saving, call,
         bounds, unsaved, idle
<1>6. ObjectInv'
  BY DEF Prepare, ObjectInv, Old, Load, Operational, SessionStates, Sides, InPair,
         Prepared, disk, saving, call, bounds, unsaved, idle
<1>7. UniqueInv'
  BY DEF Prepare, UniqueInv, Load, Sides, InPair, Prepared, disk, saving, call,
         bounds, unsaved, idle
<1>8. SettingsInv'
  BY DEF Prepare, SettingsInv, Operational, SessionStates, Sides, InPair, Prepared,
         disk, saving, call, bounds, unsaved, idle
<1>9. RolesInv'
  BY DEF Prepare, RolesInv, Operational, SessionStates, Sides, InPair, Other,
         Prepared, disk, saving, call, bounds, unsaved, idle
<1>10. ScansAsConfigured'
  BY DEF Prepare, ScansAsConfigured, TypeOK, ProcessInv, SettingsInv, RolesInv,
         Operational, Contents, Locations, SessionStates, Sides, InPair, Other,
         Prepared, disk, saving, call, bounds, unsaved, idle
<1>11. AlwaysAssignable'
  BY DEF Prepare, AlwaysAssignable, Sides, InPair, Prepared, disk, saving, call,
         bounds, unsaved, idle
<1> QED
  BY <1>1, <1>2, <1>3, <1>4, <1>5, <1>6, <1>7, <1>8, <1>9, <1>10, <1>11

LEMMA FocusStep ==
    ASSUME IInv, Focus
    PROVE  IInv'
<1> USE DEF IInv
<1>1. TypeOK'
  BY DEF Focus, TypeOK, Contents, Locations, SessionStates, Sides, disk, saving,
         call, bounds, unsaved, idle
<1>2. ProcessInv'
  BY DEF Focus, ProcessInv, Operational, SessionStates, disk, saving, call, bounds,
         unsaved, idle
<1>3. DiskInv'
  BY DEF Focus, DiskInv, Contents, disk, saving, call, bounds, unsaved, idle
<1>4. SaveInv'
  BY DEF Focus, SaveInv, disk, saving, call, bounds, unsaved, idle
<1>5. BackupInv'
  BY DEF Focus, BackupInv, Contents, disk, saving, call, bounds, unsaved, idle
<1>6. ObjectInv'
  BY DEF Focus, ObjectInv, Old, Load, Operational, SessionStates, disk, saving,
         call, bounds, unsaved, idle
<1>7. UniqueInv'
  BY DEF Focus, UniqueInv, Load, disk, saving, call, bounds, unsaved, idle
<1>8. SettingsInv'
  BY DEF Focus, SettingsInv, Operational, SessionStates, Sides, InPair, disk,
         saving, call, bounds, unsaved, idle
<1>9. RolesInv'
  BY DEF Focus, RolesInv, Operational, SessionStates, Sides, Other, disk, saving,
         call, bounds, unsaved, idle
<1>10. ScansAsConfigured'
  BY DEF Focus, ScansAsConfigured, Sides, InPair, disk, saving, call, bounds,
         unsaved, idle
<1>11. AlwaysAssignable'
  BY DEF Focus, AlwaysAssignable, disk, saving, call, bounds, unsaved, idle
<1> QED
  BY <1>1, <1>2, <1>3, <1>4, <1>5, <1>6, <1>7, <1>8, <1>9, <1>10, <1>11

LEMMA RecoverStep ==
    ASSUME IInv, Recover
    PROVE  IInv'
<1> USE DEF IInv
<1>1. TypeOK'
  BY DEF Recover, TypeOK, Contents, Locations, SessionStates, Sides, InPair,
         Prepared, disk, saving, call, bounds, unsaved, idle
<1>2. ProcessInv'
  BY DEF Recover, ProcessInv, Operational, SessionStates, Sides, InPair, Prepared,
         disk, saving, call, bounds, unsaved, idle
<1>3. DiskInv'
  BY DEF Recover, DiskInv, Contents, Sides, InPair, Prepared, disk, saving, call,
         bounds, unsaved, idle
<1>4. SaveInv'
  BY DEF Recover, SaveInv, Sides, InPair, Prepared, disk, saving, call, bounds,
         unsaved, idle
<1>5. BackupInv'
  BY DEF Recover, BackupInv, Contents, Sides, InPair, Prepared, disk, saving, call,
         bounds, unsaved, idle
<1>6. ObjectInv'
  BY DEF Recover, ObjectInv, Old, Load, Operational, SessionStates, Sides, InPair,
         Prepared, disk, saving, call, bounds, unsaved, idle
<1>7. UniqueInv'
  BY DEF Recover, UniqueInv, Load, Sides, InPair, Prepared, disk, saving, call,
         bounds, unsaved, idle
<1>8. SettingsInv'
  BY DEF Recover, SettingsInv, Operational, SessionStates, Sides, InPair, Prepared,
         disk, saving, call, bounds, unsaved, idle
<1>9. RolesInv'
  BY DEF Recover, RolesInv, Operational, SessionStates, Sides, InPair, Other,
         Prepared, disk, saving, call, bounds, unsaved, idle
<1>10. ScansAsConfigured'
  BY DEF Recover, ScansAsConfigured, TypeOK, ProcessInv, SettingsInv, RolesInv,
         Operational, Contents, Locations, SessionStates, Sides, InPair, Other,
         Prepared, disk, saving, call, bounds, unsaved, idle
<1>11. AlwaysAssignable'
  BY DEF Recover, AlwaysAssignable, Sides, InPair, Prepared, disk, saving, call,
         bounds, unsaved, idle
<1> QED
  BY <1>1, <1>2, <1>3, <1>4, <1>5, <1>6, <1>7, <1>8, <1>9, <1>10, <1>11

LEMMA StopStep ==
    ASSUME IInv, Stop
    PROVE  IInv'
<1> USE DEF IInv
<1>1. TypeOK'
  BY EmptyIsConfiguration, CameraExists, SettingsAssumption, LoadOfConfiguration,
     LoadType, NamesAssumption, BoundsAssumption
     DEF Stop, TypeOK, Contents, Locations, SessionStates, Sides, Return, disk,
         bounds, idle
<1>2. ProcessInv'
  BY DEF Stop, ProcessInv, Operational, SessionStates, Return, disk, bounds, idle
<1>3. DiskInv'
  BY DEF Stop, DiskInv, Contents, Return, disk, bounds, idle
<1>4. SaveInv'
  BY DEF Stop, SaveInv, Return, disk, bounds, idle
<1>5. BackupInv'
  BY DEF Stop, BackupInv, Contents, Return, disk, bounds, idle
<1>6. ObjectInv'
  BY DEF Stop, ObjectInv, Old, Load, Operational, SessionStates, Return, disk,
         bounds, idle
<1>7. UniqueInv'
  BY EmptyIsConfiguration, CameraExists, SettingsAssumption, LoadOfConfiguration,
     LoadType DEF Stop, UniqueInv, Load, Return, disk, bounds, idle
<1>8. SettingsInv'
  BY DEF Stop, SettingsInv, Operational, SessionStates, Sides, InPair, Return, disk,
         bounds, idle
<1>9. RolesInv'
  BY DEF Stop, RolesInv, Operational, SessionStates, Sides, Other, Return, disk,
         bounds, idle
<1>10. ScansAsConfigured'
  BY DEF Stop, ScansAsConfigured, Sides, InPair, Return, disk, bounds, idle
<1>11. AlwaysAssignable'
  BY DEF Stop, AlwaysAssignable, Return, disk, bounds, idle
<1> QED
  BY <1>1, <1>2, <1>3, <1>4, <1>5, <1>6, <1>7, <1>8, <1>9, <1>10, <1>11

LEMMA PowerFailureStep ==
    ASSUME IInv, PowerFailure
    PROVE  IInv'
<1> USE DEF IInv
<1>1. TypeOK'
  BY EmptyIsConfiguration, CameraExists, SettingsAssumption, LoadOfConfiguration,
     LoadType, NamesAssumption, BoundsAssumption
     DEF PowerFailure, TypeOK, Contents, Locations, SessionStates, Sides, Return,
         bounds, idle
<1>2. ProcessInv'
  BY DEF PowerFailure, ProcessInv, Operational, SessionStates, Return, bounds, idle
<1>3. DiskInv'
  BY DEF PowerFailure, DiskInv, Contents, Return, bounds, idle
<1>4. SaveInv'
  BY DEF PowerFailure, SaveInv, Return, bounds, idle
<1>5. BackupInv'
  BY DEF PowerFailure, BackupInv, Contents, Return, bounds, idle
<1>6. ObjectInv'
  BY DEF PowerFailure, ObjectInv, Old, Load, Operational, SessionStates, Return,
         bounds, idle
<1>7. UniqueInv'
  BY EmptyIsConfiguration, CameraExists, SettingsAssumption, LoadOfConfiguration,
     LoadType DEF PowerFailure, UniqueInv, Load, Return, bounds, idle
<1>8. SettingsInv'
  BY DEF PowerFailure, SettingsInv, Operational, SessionStates, Sides, InPair,
         Return, bounds, idle
<1>9. RolesInv'
  BY DEF PowerFailure, RolesInv, Operational, SessionStates, Sides, Other, Return,
         bounds, idle
<1>10. ScansAsConfigured'
  BY DEF PowerFailure, ScansAsConfigured, Sides, InPair, Return, bounds, idle
<1>11. AlwaysAssignable'
  BY DEF PowerFailure, AlwaysAssignable, Return, bounds, idle
<1> QED
  BY <1>1, <1>2, <1>3, <1>4, <1>5, <1>6, <1>7, <1>8, <1>9, <1>10, <1>11

LEMMA StartStep ==
    ASSUME IInv, NEW first \in Cameras, NEW second \in Cameras, Start(first, second)
    PROVE  IInv'
<1> USE DEF IInv
<1>a. configuration' \in ScannerConfiguration /\ UniqueRoles(configuration')
  BY LoadType DEF Start, DiskInv, UniqueInv
<1>b. ~Conflict(configuration', first, second)
  BY <1>a, AssignmentLemma DEF Start
<1>c. /\ state' = "new" /\ pair' \in [Sides -> Cameras] /\ pair'["even"] # pair'["odd"]
      /\ \A s \in Sides : configuration'[pair'[s]].position \in {s, Nowhere}
  BY <1>a, <1>b, AssignmentLemma DEF Start
<1>d. /\ settings' \in [Cameras -> Settings]
      /\ \A c \in Cameras : settings'[c] = configuration'[c].settings
  BY <1>a, ConfigurationType DEF Start
<1>e. pc = "idle" /\ pc' = "idle" /\ operation' = operation
  BY DEF Start, ProcessInv, Operational, call
<1>1. TypeOK'
  <2>1. (file \in Contents \cup {Torn} /\ onDisk \in SUBSET (Contents \cup {Torn}))'
    BY DEF Start, TypeOK, Contents, Locations, SessionStates, Sides, disk, saving,
           call, idle, Load
  <2>2. (temporary \in Contents \cup {Torn} /\ backup \in Contents \cup {Torn})'
    BY DEF Start, TypeOK, Contents, Locations, SessionStates, Sides, disk, saving,
           call, idle, Load
  <2>3. (/\ flushed \in SUBSET {"temporary", "backup"}
          /\ backup_created \in BOOLEAN /\ published \in BOOLEAN /\ failed \in BOOLEAN)'
    BY DEF Start, TypeOK, Contents, Locations, SessionStates, Sides, disk, saving,
           call, idle, Load
  <2>4. (pc \in Locations /\ operation \in {"none", "configure_camera", "swap_cameras"})'
    BY DEF Start, TypeOK, Contents, Locations, SessionStates, Sides, disk, saving,
           call, idle, Load
  <2>5. (target \in Cameras /\ previous \in Settings /\ updated \in ScannerConfiguration)'
    BY DEF Start, TypeOK, Contents, Locations, SessionStates, Sides, disk, saving,
           call, idle, Load
  <2>6. (outcome \in {"none", "running", "saved", "failed"} /\ diverged \in BOOLEAN)'
    BY DEF Start, TypeOK, Contents, Locations, SessionStates, Sides, disk, saving,
           call, idle, Load
  <2>7. (configuration \in ScannerConfiguration)'
    BY <1>a
  <2>8. (pair \in [Sides -> Cameras])'
    BY <1>c
  <2>9. (settings \in [Cameras -> Settings] /\ applied \in [Cameras -> Settings])'
    BY <1>d DEF Start, TypeOK
  <2>10. (state \in SessionStates /\ saves \in 0..MaxSaves /\ starts \in 0..MaxStarts)'
    BY EmptyIsConfiguration, AssignmentLemma, LoadOfConfiguration, LoadType,
       NamesAssumption, ConfigurationType, BoundsAssumption
       DEF Start, TypeOK, Contents, Locations, SessionStates, Sides, disk, saving,
           call, idle, Load
  <2> QED
    BY <2>1, <2>2, <2>3, <2>4, <2>5, <2>6, <2>7, <2>8, <2>9, <2>10
       DEF TypeOK, Contents
<1>2. ProcessInv'
  BY DEF Start, ProcessInv, Operational, SessionStates, disk, saving, call, idle,
         Load
<1>3. DiskInv'
  BY DEF Start, DiskInv, Contents, disk, saving, call, Load
<1>4. SaveInv'
  BY DEF Start, SaveInv, disk, saving, call, Load
<1>5. BackupInv'
  BY DEF Start, BackupInv, Contents, disk, saving, call, Load
<1>6. ObjectInv'
  BY DEF Start, ObjectInv, ProcessInv, Old, Load, Operational, SessionStates, disk,
         saving, call, idle
<1>7. UniqueInv'
  BY EmptyIsConfiguration, AssignmentLemma, LoadOfConfiguration, LoadType,
     ConfigurationType
     DEF Start, UniqueInv, TypeOK, ProcessInv, SaveInv, DiskInv, BackupInv, Load,
         Operational, Contents, Locations, SessionStates, Sides, disk, saving, call,
         idle
<1>8. SettingsInv'
  BY <1>c, <1>d, <1>e DEF SettingsInv, InPair
<1>9. RolesInv'
  BY <1>c, <1>e DEF RolesInv
<1>10. ScansAsConfigured'
  BY DEF Start, ScansAsConfigured, Sides, InPair, disk, saving, call, Load
<1>11. AlwaysAssignable'
  BY <1>c DEF AlwaysAssignable
<1> QED
  BY <1>1, <1>2, <1>3, <1>4, <1>5, <1>6, <1>7, <1>8, <1>9, <1>10, <1>11

LEMMA StutterStep == ASSUME IInv, UNCHANGED vars PROVE IInv'
BY DEF IInv, vars, TypeOK, ProcessInv, DiskInv, SaveInv, BackupInv, ObjectInv,
       UniqueInv, SettingsInv, RolesInv, ScansAsConfigured, AlwaysAssignable,
       Operational, Old, InPair, disk, saving, call, session, bounds

LEMMA NextStep == ASSUME IInv, [Next]_vars PROVE IInv'
<1>1. WriteTemporary => IInv'
  BY WriteTemporaryStep
<1>2. CopyBackup => IInv'
  BY CopyBackupStep
<1>3. Publish => IInv'
  BY PublishStep
<1>4. SyncDirectory => IInv'
  BY SyncDirectoryStep
<1>5. DiscardBackup => IInv'
  BY DiscardBackupStep
<1>6. Rollback => IInv'
  BY RollbackStep
<1>7. RemoveTemporary => IInv'
  BY RemoveTemporaryStep
<1>8. Commit => IInv'
  BY CommitStep
<1>9. Undo => IInv'
  BY UndoStep
<1>10. (\E camera \in Cameras, choice \in Settings : ConfigureCamera(camera, choice)) => IInv'
  BY ConfigureCameraStep
<1>11. SwapCameras => IInv'
  BY SwapCamerasStep
<1>12. (\E camera \in Cameras : TestCapture(camera)) => IInv'
  BY TestCaptureStep
<1>13. Prepare => IInv'
  BY PrepareStep
<1>14. Focus => IInv'
  BY FocusStep
<1>15. Recover => IInv'
  BY RecoverStep
<1>16. Stop => IInv'
  BY StopStep
<1>17. PowerFailure => IInv'
  BY PowerFailureStep
<1>18. (\E first, second \in Cameras : Start(first, second)) => IInv'
  BY StartStep
<1> QED
  BY <1>1, <1>2, <1>3, <1>4, <1>5, <1>6, <1>7, <1>8, <1>9, <1>10, <1>11, <1>12,
     <1>13, <1>14, <1>15, <1>16, <1>17, <1>18, StutterStep DEF Next, SaveStep

\* IInv holds in every state of every run of the system.
THEOREM InvariantHolds == Spec => []IInv
<1>1. Init => IInv
  BY InitIInv
<1>2. IInv /\ [Next]_vars => IInv'
  BY NextStep
<1> QED
  BY <1>1, <1>2, PTL DEF Spec

\* Types are as declared.
THEOREM TypeCorrect == Spec => []TypeOK
<1>1. IInv => TypeOK
  BY DEF IInv
<1> QED
  BY <1>1, InvariantHolds, PTL

\* At any stop and after any power failure pi-scan.conf is a whole configuration.
THEOREM FileStaysWhole == Spec => []FileIsWhole
<1>1. IInv => FileIsWhole
  BY NamesAssumption DEF IInv, DiskInv, FileIsWhole, Contents
<1> QED
  BY <1>1, InvariantHolds, PTL

\* A save that has returned survives a power failure.
THEOREM SavesAreDurable == Spec => []SavedIsDurable
<1>1. IInv => SavedIsDurable
  BY DEF IInv, ObjectInv, SavedIsDurable
<1> QED
  BY <1>1, InvariantHolds, PTL

\* File, object and cameras agree between operations, failed ones included; the file alone
\* differs where the last save has raised over a file that stands.
THEOREM CopiesStayEqual == Spec => []CopiesAgree
<1>1. IInv => CopiesAgree
  BY DEF IInv, ObjectInv, SettingsInv, ProcessInv, CopiesAgree, Old, idle
<1> QED
  BY <1>1, InvariantHolds, PTL

\* The session's roles are those of the configuration.
THEOREM RolesStayEqual == Spec => []RolesAgree
<1>1. IInv => RolesAgree
  BY DEF IInv, RolesInv, RolesAgree, idle
<1> QED
  BY <1>1, InvariantHolds, PTL

\* Prepared cameras have the configured settings.
THEOREM CamerasScanAsConfigured == Spec => []ScansAsConfigured
<1>1. IInv => ScansAsConfigured
  BY DEF IInv
<1> QED
  BY <1>1, InvariantHolds, PTL

\* Any two cameras can be assigned.
THEOREM PairsAreAssignable == Spec => []AlwaysAssignable
<1>1. IInv => AlwaysAssignable
  BY DEF IInv
<1> QED
  BY <1>1, InvariantHolds, PTL

LEMMA SettingsStep ==
    ASSUME IInv, [Next]_vars, NEW c \in Cameras,
           Load(file')[c].settings # Load(file)[c].settings
    PROVE  \/ operation = "configure_camera" /\ target = c
           \/ diverged /\ (failed \/ Load(file')[c].settings = configuration[c].settings)
           \/ PowerFailure
<1> SUFFICES ASSUME ~PowerFailure,
                    ~(diverged /\ (failed \/ Load(file')[c].settings = configuration[c].settings))
             PROVE  operation = "configure_camera" /\ target = c
  OBVIOUS
<1> USE DEF IInv
<1>1. Publish \/ Rollback \/ file' = file
  BY DEF Next, SaveStep, vars, disk, saving, WriteTemporary, CopyBackup,
         SyncDirectory, DiscardBackup, RemoveTemporary, Commit, Undo,
         ConfigureCamera, SwapCameras, TestCapture, Prepare, Focus, Recover, Stop,
         Start, unsaved
<1>2. file' # file
  OBVIOUS
<1>3. ASSUME pc # "idle", Operational
      PROVE  \/ updated[c].settings = configuration[c].settings
             \/ operation = "configure_camera" /\ target = c
  BY <1>3, UpdatedLemma DEF SettingsInv
<1>4. CASE Publish
  <2>1. /\ pc = "publish" /\ Operational /\ file' = updated
        /\ Load(file') = updated
    BY <1>2, <1>4, LoadOfConfiguration DEF Publish, SaveInv, ProcessInv, TypeOK, disk
  <2>2. CASE diverged
    BY <1>3, <2>1, <2>2
  <2>3. CASE ~diverged
    <3>1. Load(file) = configuration
      BY <2>1, <2>3 DEF SaveInv, ObjectInv, Old
    <3> QED
      BY <1>3, <2>1, <3>1
  <2> QED
    BY <2>2, <2>3
<1>5. CASE Rollback
  <2>1. published /\ failed /\ pc = "except" /\ Operational /\ file' = Old
    BY <1>2, <1>5 DEF Rollback, ProcessInv, SaveInv, Old, disk
  <2>2. file = updated /\ Load(file) = updated
    BY <2>1, LoadOfConfiguration DEF SaveInv, TypeOK
  <2>3. Load(file') = configuration
    BY <2>1 DEF ObjectInv
  <2> QED
    BY <1>3, <2>1, <2>2, <2>3
<1> QED
  BY <1>1, <1>2, <1>4, <1>5

\* A swap or a replaced camera costs no camera its settings.  The first save after one that
\* has raised over a file that stands brings those of the configuration object.
THEOREM SettingsAreKept == Spec => SettingsSurvive
<1>1. IInv /\ [Next]_vars => [\A c \in Cameras :
          Load(file')[c].settings # Load(file)[c].settings
             => \/ operation = "configure_camera" /\ target = c
                \/ diverged /\ (failed \/ Load(file')[c].settings = configuration[c].settings)
                \/ PowerFailure]_vars
  BY SettingsStep
<1> QED
  BY <1>1, InvariantHolds, PTL DEF Spec, SettingsSurvive
=============================================================================
