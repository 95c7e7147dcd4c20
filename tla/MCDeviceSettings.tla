-------------------------- MODULE MCDeviceSettings --------------------------
(* Every family of devices, from any of its states after setup.                  *)
EXTENDS DeviceSettings

\* Polls are scheduled, reads are answered or fail, pushes arrive or are lost.  Of the
\* polls of a V1 robot one is a whole one whenever the last of that kind is old enough
\* (should_refresh_full_v1_data); its home trait is read only when it cleans or changes
\* its state, which nothing assures.  Which fields a push holds is up to the device.
Fairness ==
  /\ WF_settingVars(PollStarts) /\ WF_settingVars(Solicits) /\ WF_settingVars(PushArrives)
  /\ SF_settingVars(family # "map" /\ ReadsV1(0))
  /\ \A r \in Readers :
       /\ WF_settingVars(ReadsV1(r) \/ ReadsZeo(r) \/ ReadsQ7(r) \/ ReadsStatus(r))
       /\ WF_settingVars(Shows(r))

Spec == SettingSpec /\ Fairness
=============================================================================
